---- MODULE Spec2Model ----
(***************************************************************************)
(* A model of the waqediai document pipeline: the document state machine   *)
(* and the ingestion routes, the tenant-filtered vector store and the      *)
(* answering path's citation extraction, the stage consumers of the        *)
(* documents topic, and the chunkers.                                      *)
(***************************************************************************)
EXTENDS Integers, Sequences, FiniteSets, TLC

VARIABLES
    doc,        \* an in-memory Document entity (domain/models.py)
    call,       \* the last transition_to call made on doc and its outcome
    clock       \* the wall clock read by datetime.utcnow()

fsmVars == <<doc, call, clock>>

VARIABLES
    rows,       \* the documents table: one row per document id
    reqs,       \* the ingestion requests in flight, one per worker slot
    lastWrite,  \* the last UPDATE of a row's status: the status it replaced and wrote
    outbox,     \* the events the ingestion service has published, in order
    blobs       \* the storage keys written to the object store

ingestVars == <<rows, reqs, lastWrite, outbox, blobs>>

VARIABLES
    collections,    \* Qdrant: collection name -> the points it holds
    lastSearch      \* the last /search or /query request and what it returned

vecVars == <<collections, lastSearch>>

VARIABLES
    answer,         \* the text the LLM returned for a prompt
    window,         \* the chunks of the context window the prompt was built from
    citations,      \* the citations of the response
    extracted       \* whether Generator.generate has built the response

citeVars == <<answer, window, citations, extracted>>

VARIABLES
    log,            \* the documents topic: partition -> the events appended to it
    pos,            \* per stage consumer and partition: the events fetched so far
    committed,      \* per consumer group and partition: the committed offset
    cur,            \* per stage consumer: the event its handler is working on
    up,             \* per stage consumer: whether its process is running
    observed,       \* per stage consumer: the pipeline events delivered to it, in order
    handled,        \* per stage consumer: the events whose handler has returned
    extractions,    \* per document: how often the OCR/STT engine has run to completion
    attempts,       \* per document: how often the OCR/STT engine has been called
    restarts        \* how many consumer processes have been stopped or have crashed

busVars == <<log, pos, committed, cur, up, observed, handled, extractions, attempts,
            restarts>>

VARIABLES
    deliveries,     \* the events handed to the chunking and retrieval handlers, in
                    \* order, each with what the handler emitted and left stored
    chunkRun        \* the last call of POST /chunk or of the pipeline Chunker

stageVars == <<deliveries, chunkRun>>

VARIABLES
    ragRun,         \* one call of RAGEngine.query: the request, what retrieval and
                    \* the LLM gave, and the response
    contextRun,     \* one call of ContextAssembler.assemble: its arguments, the
                    \* ranked list and the window
    normRun,        \* a text, its normalization and the normalization of that
    conversations,  \* QueryUnderstanding._conversation_cache of one instance
    turns,          \* the process calls made on that instance, in order, each
                    \* with the conversation_context it returned
    lastDelete      \* the last delete_document call on a vector collection

ragVars == <<ragRun, contextRun, normRun, conversations, turns, lastDelete>>

VARIABLES
    posts,          \* the POST /query calls answered so far, in order, each with
                    \* the conversation context its prompt was built from
    sttRun,         \* per audio document: where its extraction on the STT path is
    tempFiles,      \* the documents whose WAV file is in the temp directory
    caught,         \* per stage consumer: the events whose handling raised into
                    \* run(), which logged the exception
    refresh_tokens, \* the refresh_tokens table: token -> its committed row
    refreshes,      \* the POST /auth/refresh requests in flight or answered
    producer,       \* ingestion events.py: the module globals _producer and
                    \* _publisher
    callers,        \* the upload requests on their way through
                    \* get_event_publisher and publish
    pipeRuns        \* the Pipeline.process calls made, in order, each with its
                    \* result and the points it upserted

routeVars == <<posts>>
sttVars == <<sttRun, tempFiles>>
loopVars == <<caught>>
authVars == <<refresh_tokens, refreshes>>
prodVars == <<producer, callers>>
pipeVars == <<pipeRuns>>

\* The variables of the service internals modelled apart from the pipeline.
svcVars == <<routeVars, sttVars, loopVars, authVars, prodVars, pipeVars>>

\* What the state machine and the ingestion routes leave alone.
restVars == <<vecVars, citeVars, busVars, stageVars, ragVars, svcVars>>

vars == <<fsmVars, ingestVars, restVars>>

-----------------------------------------------------------------------------
(* Bounds *)

MaxClock == 7
MaxSegments == 3
MaxRestarts == 1

-----------------------------------------------------------------------------
(* Document state machine: ingestion_service/domain/models.py *)

DocumentStatus ==
    {"UPLOADED", "VALIDATED", "QUEUED", "PROCESSING", "PROCESSED",
     "FAILED", "ARCHIVED", "REJECTED", "DELETED"}

ALLOWED_TRANSITIONS ==
    [s \in DocumentStatus |->
        CASE s = "UPLOADED"   -> {"VALIDATED", "REJECTED"}
          [] s = "VALIDATED"  -> {"QUEUED"}
          [] s = "QUEUED"     -> {"PROCESSING"}
          [] s = "PROCESSING" -> {"PROCESSED", "FAILED"}
          [] s = "PROCESSED"  -> {"ARCHIVED", "DELETED"}
          [] s = "FAILED"     -> {"QUEUED"}
          [] s = "ARCHIVED"   -> {"DELETED"}
          [] s = "REJECTED"   -> {}
          [] s = "DELETED"    -> {}]

\* A timestamp field that holds None.
NoTime == 0

TimestampFields ==
    {"uploaded_at", "validated_at", "processed_at", "archived_at",
     "deleted_at", "expires_at"}

\* Document(...) as the dataclass builds it: status UPLOADED, no timestamps.
NewDocument(hold) ==
    [status |-> "UPLOADED", legal_hold |-> hold,
     uploaded_at |-> NoTime, validated_at |-> NoTime, processed_at |-> NoTime,
     archived_at |-> NoTime, deleted_at |-> NoTime, expires_at |-> NoTime]

\* A plausible slip: a self-transition is let through.
can_transition_to_selfloop(d, new_status) ==
    new_status \in (ALLOWED_TRANSITIONS[d.status] \cup {d.status})

can_transition_to(d, new_status) ==
    new_status \in ALLOWED_TRANSITIONS[d.status]

\* The timestamp write at the end of transition_to.
StampTransition(d, new_status, now) ==
    CASE new_status = "VALIDATED" -> [d EXCEPT !.validated_at = now]
      [] new_status = "PROCESSED" -> [d EXCEPT !.processed_at = now]
      [] new_status = "ARCHIVED"  -> [d EXCEPT !.archived_at = now]
      [] new_status = "DELETED"   -> [d EXCEPT !.deleted_at = now]
      [] OTHER                    -> d

\* A plausible slip: ARCHIVED stamps processed_at.
transition_to_wrongstamp(d, new_status, now) ==
    IF ~can_transition_to(d, new_status)
    THEN [raised |-> "IllegalStateTransition", doc |-> d]
    ELSE IF new_status = "DELETED" /\ d.legal_hold
    THEN [raised |-> "LegalHoldViolation", doc |-> d]
    ELSE [raised |-> "none",
          doc |-> IF new_status = "ARCHIVED"
                  THEN [d EXCEPT !.status = new_status, !.processed_at = now]
                  ELSE StampTransition([d EXCEPT !.status = new_status], new_status, now)]

\* Document.transition_to: the exception raised ("none" when it returns) and
\* the entity afterwards.
transition_to(d, new_status, now) ==
    IF ~can_transition_to(d, new_status)
    THEN [raised |-> "IllegalStateTransition", doc |-> d]
    ELSE IF new_status = "DELETED" /\ d.legal_hold
    THEN [raised |-> "LegalHoldViolation", doc |-> d]
    ELSE [raised |-> "none",
          doc |-> StampTransition([d EXCEPT !.status = new_status], new_status, now)]

FsmStart ==
    /\ \E hold \in BOOLEAN :
        /\ doc = NewDocument(hold)
        /\ call = [made |-> FALSE, from |-> "UPLOADED", to |-> "UPLOADED",
                   before |-> NewDocument(hold), raised |-> "none", now |-> NoTime]
    /\ clock = 0

\* One call doc.transition_to(new_status); utcnow() is read only when the
\* transition is allowed.
TransitionCall ==
    /\ clock < MaxClock
    /\ \E new_status \in DocumentStatus :
        LET r == transition_to(doc, new_status, clock + 1) IN
        /\ doc' = r.doc
        /\ call' = [made |-> TRUE, from |-> doc.status, to |-> new_status,
                    before |-> doc, raised |-> r.raised, now |-> clock + 1]
        /\ clock' = IF r.raised = "none" THEN clock + 1 ELSE clock
    /\ UNCHANGED <<ingestVars, restVars>>

\* With no call made: the entity as constructed, not under hold.
FsmIdle ==
    /\ doc = NewDocument(FALSE)
    /\ call = [made |-> FALSE, from |-> "UPLOADED", to |-> "UPLOADED",
               before |-> NewDocument(FALSE), raised |-> "none", now |-> NoTime]
    /\ clock = 0

-----------------------------------------------------------------------------
(* Ingestion routes: api/routes/documents.py, services/upload.py,          *)
(* adapters/repository.py                                                  *)

Tenants == {"t1", "t2"}
DocIds == {"d1"}
ReqIds == {"r1", "r2"}

\* The content types and sizes (bytes) an upload is tried with. The limits of
\* audio and video (500 MiB, 2 GiB) are not tried: 2 GiB in bytes is beyond
\* the integers TLC computes with.
ContentTypes == {"application/pdf", "image/png", "text/plain"}
UploadSizes == {12288, 52428801, 104857601}

\* The time a handler reads from datetime.now(UTC): never None.
Now == clock + 1

NoRow == [exists |-> FALSE, tenant |-> "t1", d |-> NewDocument(FALSE),
          storage_key |-> <<>>]

IdleReq ==
    [op |-> "none", pc |-> "idle", tenant |-> "t1", doc_id |-> "d1",
     found |-> FALSE, document |-> NewDocument(FALSE),
     wrote |-> FALSE, txrow |-> NoRow, response |-> "",
     content_type |-> "", size_bytes |-> 0]

NoWrite == [made |-> FALSE, op |-> "none", doc_id |-> "d1",
            from |-> "UPLOADED", to |-> "UPLOADED"]

\* A plausible slip: the type check lets every content type through.
is_allowed_content_type_any(content_type) == TRUE

is_allowed_content_type(content_type) ==
    content_type \in {"application/pdf", "image/png", "image/jpeg",
                      "audio/mpeg", "audio/wav", "video/mp4"}

\* ALLOWED_MIME_TYPES in MB, 100 for a type it does not list.
get_max_size_bytes(content_type) ==
    (CASE content_type = "application/pdf" -> 100
       [] content_type \in {"image/png", "image/jpeg"} -> 50
       [] content_type \in {"audio/mpeg", "audio/wav"} -> 500
       [] content_type = "video/mp4" -> 2048
       [] OTHER -> 100) * 1024 * 1024

\* MIME_TO_CATEGORY, DOCUMENT for a type it does not list.
get_file_category(content_type) ==
    CASE content_type \in {"image/png", "image/jpeg"} -> "IMAGE"
      [] content_type \in {"audio/mpeg", "audio/wav"} -> "AUDIO"
      [] content_type = "video/mp4" -> "VIDEO"
      [] OTHER -> "DOCUMENT"

\* build_storage_key: the key names the tenant and the generated document id.
build_storage_key(tenant_id, document_id) == <<tenant_id, document_id>>

\* document_uploaded_event: the event and the keys of its payload.
document_uploaded_event(document_id, tenant_id, file_category, content_type, size_bytes) ==
    [event_type |-> "document.uploaded", tenant_id |-> tenant_id,
     payload |-> [document_id |-> document_id, file_category |-> file_category,
                  content_type |-> content_type, size_bytes |-> size_bytes]]

\* DocumentRepository.get_by_id for a repository of tenant t: the row of that
\* tenant with that id that is not soft-deleted.
get_by_id(t, d) ==
    IF rows[d].exists /\ rows[d].tenant = t /\ rows[d].d.deleted_at = NoTime
    THEN [found |-> TRUE, document |-> rows[d].d]
    ELSE [found |-> FALSE, document |-> NewDocument(FALSE)]

\* DocumentRepository.update_status: the row after the UPDATE.
update_status(row, new_status, timestamp_field, now) ==
    IF timestamp_field = ""
    THEN [row EXCEPT !.d.status = new_status]
    ELSE [row EXCEPT !.d.status = new_status, !.d[timestamp_field] = now]

\* DocumentRepository.soft_delete: the row after the UPDATE.
soft_delete(row, now) ==
    [row EXCEPT !.d.status = "DELETED", !.d.deleted_at = now]

\* Another request's open transaction has written the row: an UPDATE waits.
Locked(r, d) ==
    \E q \in ReqIds \ {r} : reqs[q].wrote /\ reqs[q].doc_id = d

\* The row version an UPDATE of request r replaces.
CurrentRow(r) ==
    IF reqs[r].wrote THEN reqs[r].txrow ELSE rows[reqs[r].doc_id]

\* A plausible slip: the route does not check the legal hold.
HoldBlocksDelete_unchecked(document) == FALSE

\* delete_document's check of document.legal_hold.
HoldBlocksDelete(document) == document.legal_hold

IngestEmpty ==
    /\ rows = [d \in DocIds |-> NoRow]
    /\ reqs = [r \in ReqIds |-> IdleReq]
    /\ lastWrite = NoWrite
    /\ outbox = <<>>
    /\ blobs = {}

\* The table holds one document of tenant t1 that earlier processing left in
\* any status but DELETED, under legal hold or not.
IngestSeeded ==
    /\ \E s \in DocumentStatus \ {"DELETED"}, hold \in BOOLEAN :
        rows = [d \in DocIds |->
                  IF d = "d1"
                  THEN [exists |-> TRUE, tenant |-> "t1",
                        d |-> [NewDocument(hold) EXCEPT !.status = s, !.uploaded_at = Now],
                        storage_key |-> build_storage_key("t1", d)]
                  ELSE NoRow]
    /\ reqs = [r \in ReqIds |-> IdleReq]
    /\ lastWrite = NoWrite
    /\ outbox = <<>>
    /\ blobs = {}

\* UploadService.upload behind POST /documents, for the tenant of the caller's
\* token: validation, blob, row (committed), document.uploaded (a failed
\* publish is logged and swallowed).
Upload(r) ==
    /\ reqs[r].pc = "idle"
    /\ \E t \in Tenants, ct \in ContentTypes, size \in UploadSizes, sent \in BOOLEAN :
        LET request == [IdleReq EXCEPT !.op = "upload", !.pc = "done", !.tenant = t,
                                     !.content_type = ct, !.size_bytes = size]
        IN
        IF ~is_allowed_content_type(ct)
        THEN /\ reqs' = [reqs EXCEPT ![r] =
                  [request EXCEPT !.response = "415 urn:waqedi:error:unsupported-media-type"]]
             /\ UNCHANGED <<rows, outbox, blobs>>
        ELSE IF size > get_max_size_bytes(ct)
        THEN /\ reqs' = [reqs EXCEPT ![r] =
                  [request EXCEPT !.response = "413 urn:waqedi:error:file-too-large"]]
             /\ UNCHANGED <<rows, outbox, blobs>>
        ELSE \E d \in DocIds :
             /\ ~rows[d].exists
             /\ blobs' = blobs \cup {build_storage_key(t, d)}
             /\ rows' = [rows EXCEPT ![d] =
                           [exists |-> TRUE, tenant |-> t,
                            d |-> [NewDocument(FALSE) EXCEPT !.uploaded_at = Now],
                            storage_key |-> build_storage_key(t, d)]]
             /\ outbox' = IF sent
                          THEN Append(outbox, document_uploaded_event(
                                                  d, t, get_file_category(ct), ct, size))
                          ELSE outbox
             /\ reqs' = [reqs EXCEPT ![r] = [request EXCEPT !.doc_id = d, !.response = "201"]]
    /\ UNCHANGED <<lastWrite, fsmVars, restVars>>

\* validate_and_queue(document_id, tenant_id) is called.
StartValidate(r) ==
    /\ reqs[r].pc = "idle"
    /\ \E t \in Tenants, d \in DocIds :
        reqs' = [reqs EXCEPT ![r] = [IdleReq EXCEPT !.op = "validate", !.pc = "read",
                                                     !.tenant = t, !.doc_id = d]]
    /\ UNCHANGED <<rows, lastWrite, outbox, blobs, fsmVars, restVars>>

\* DELETE /documents/{document_id} arrives with the token of tenant t.
StartDelete(r) ==
    /\ reqs[r].pc = "idle"
    /\ \E t \in Tenants, d \in DocIds :
        reqs' = [reqs EXCEPT ![r] = [IdleReq EXCEPT !.op = "delete", !.pc = "read",
                                                     !.tenant = t, !.doc_id = d]]
    /\ UNCHANGED <<rows, lastWrite, outbox, blobs, fsmVars, restVars>>

\* repo.get_by_id and what the handler does with the answer before its next
\* await: ValueError / 404 when there is no document, 409 under legal hold.
ReadDocument(r) ==
    /\ reqs[r].pc = "read"
    /\ LET got == get_by_id(reqs[r].tenant, reqs[r].doc_id)
           op == reqs[r].op
       IN reqs' = [reqs EXCEPT ![r] =
            IF ~got.found
            THEN [@ EXCEPT !.pc = "done",
                           !.response = IF op = "delete"
                                        THEN "404 urn:waqedi:error:document-not-found"
                                        ELSE "ValueError"]
            ELSE IF op = "delete" /\ HoldBlocksDelete(got.document)
            THEN [@ EXCEPT !.pc = "done", !.found = TRUE, !.document = got.document,
                           !.response = "409 urn:waqedi:error:legal-hold"]
            ELSE [@ EXCEPT !.pc = IF op = "delete" THEN "soft_delete" ELSE "validate",
                           !.found = TRUE, !.document = got.document]]
    /\ UNCHANGED <<rows, lastWrite, outbox, blobs, fsmVars, restVars>>

\* document.transition_to(VALIDATED); repo.update_status(VALIDATED, "validated_at").
\* An exception leaves the session block: the transaction is rolled back.
ValidateStep(r) ==
    /\ reqs[r].pc = "validate"
    /\ LET t == transition_to(reqs[r].document, "VALIDATED", Now)
           d == reqs[r].doc_id
       IN IF t.raised # "none"
          THEN /\ reqs' = [reqs EXCEPT ![r] = [@ EXCEPT !.pc = "done", !.response = t.raised,
                                                        !.wrote = FALSE, !.txrow = NoRow]]
               /\ UNCHANGED lastWrite
          ELSE /\ ~Locked(r, d)
               /\ reqs' = [reqs EXCEPT ![r] = [@ EXCEPT !.pc = "queue", !.document = t.doc,
                              !.wrote = TRUE,
                              !.txrow = update_status(CurrentRow(r), "VALIDATED", "validated_at", Now)]]
               /\ lastWrite' = [made |-> TRUE, op |-> "validate", doc_id |-> d,
                                from |-> CurrentRow(r).d.status, to |-> "VALIDATED"]
    /\ UNCHANGED <<rows, outbox, blobs, fsmVars, restVars>>

\* document.transition_to(QUEUED); repo.update_status(QUEUED).
QueueStep(r) ==
    /\ reqs[r].pc = "queue"
    /\ LET t == transition_to(reqs[r].document, "QUEUED", Now)
           d == reqs[r].doc_id
       IN IF t.raised # "none"
          THEN /\ reqs' = [reqs EXCEPT ![r] = [@ EXCEPT !.pc = "done", !.response = t.raised,
                                                        !.wrote = FALSE, !.txrow = NoRow]]
               /\ UNCHANGED lastWrite
          ELSE /\ ~Locked(r, d)
               /\ reqs' = [reqs EXCEPT ![r] = [@ EXCEPT !.pc = "commit", !.document = t.doc,
                              !.wrote = TRUE,
                              !.txrow = update_status(CurrentRow(r), "QUEUED", "", Now)]]
               /\ lastWrite' = [made |-> TRUE, op |-> "validate", doc_id |-> d,
                                from |-> CurrentRow(r).d.status, to |-> "QUEUED"]
    /\ UNCHANGED <<rows, outbox, blobs, fsmVars, restVars>>

\* repo.soft_delete(document_id): no transition_to is called on the way.
SoftDeleteStep(r) ==
    /\ reqs[r].pc = "soft_delete"
    /\ ~Locked(r, reqs[r].doc_id)
    /\ reqs' = [reqs EXCEPT ![r] = [@ EXCEPT !.pc = "commit", !.wrote = TRUE,
                                            !.txrow = soft_delete(CurrentRow(r), Now)]]
    /\ lastWrite' = [made |-> TRUE, op |-> "delete", doc_id |-> reqs[r].doc_id,
                     from |-> CurrentRow(r).d.status, to |-> "DELETED"]
    /\ UNCHANGED <<rows, outbox, blobs, fsmVars, restVars>>

\* The session block ends: the transaction commits. DELETE answers 202.
Commit(r) ==
    /\ reqs[r].pc = "commit"
    /\ rows' = [rows EXCEPT ![reqs[r].doc_id] = reqs[r].txrow]
    /\ reqs' = [reqs EXCEPT ![r] =
                  IF reqs[r].op = "delete"
                  THEN [@ EXCEPT !.pc = "done", !.wrote = FALSE, !.response = "202"]
                  ELSE [@ EXCEPT !.pc = "publish", !.wrote = FALSE]]
    /\ UNCHANGED <<lastWrite, outbox, blobs, fsmVars, restVars>>

\* validate_and_queue publishes document.validated; a failed publish is logged
\* and swallowed.
PublishValidated(r) ==
    /\ reqs[r].pc = "publish"
    /\ \E sent \in BOOLEAN :
        outbox' = IF sent
                  THEN Append(outbox, [event_type |-> "document.validated",
                                       tenant_id |-> reqs[r].tenant,
                                       document_id |-> reqs[r].doc_id])
                  ELSE outbox
    /\ reqs' = [reqs EXCEPT ![r] = [@ EXCEPT !.pc = "done", !.response = "ok"]]
    /\ UNCHANGED <<rows, lastWrite, blobs, fsmVars, restVars>>

\* The caller has its answer; the slot takes the next request.
Return(r) ==
    /\ reqs[r].pc = "done"
    /\ reqs' = [reqs EXCEPT ![r] = IdleReq]
    /\ UNCHANGED <<rows, lastWrite, outbox, blobs, fsmVars, restVars>>

-----------------------------------------------------------------------------
(* Vector store and answering path: retrieval-service/app/qdrant_client.py  *)
(* and api.py, pipeline-service/app/stages/storage.py, rag-service/app      *)

GUEST_TENANT_ID == "00000000-0000-0000-0000-000000000000"

VecDocIds == {"d1", "d2"}
ChunkIds == {"c1", "c2"}
Languages == {"en", "ar"}

\* No value given for an optional request field (None).
NoValue == ""

\* "{prefix}_vectors" and "{prefix}_knowledge" with the default prefix.
RetrievalCollection == "waqedi_vectors"
KnowledgeCollection == "waqedi_knowledge"
\* settings.qdrant_collection of the rag service.
RagCollection == "waqedi_knowledge"

\* The chunks the stages hand on for a document: every tenant's documents
\* carry the same chunk ids and the same text, in the document's language.
DocChunks(document_id) ==
    [i \in 1..2 |->
        [chunk_id |-> IF i = 1 THEN "c1" ELSE "c2", text |-> "lorem ipsum",
         language |-> IF document_id = "d1" THEN "en" ELSE "ar"]]

\* The document and chunk ids a caller of POST /index or of the pipeline can
\* pass besides those above: any non-empty string, underscores included.
IndexDocumentIds == {"a", "a_b"}
IndexChunkIds == {"c", "b_c"}

\* An id as f"{...}" writes it out: its parts between underscores and the
\* underscores. str(UUID) and the ids above have no underscore.
Chars(id) ==
    CASE id = "a_b" -> <<"a", "_", "b">>
      [] id = "b_c" -> <<"b", "_", "c">>
      [] OTHER -> <<id>>

\* QdrantService.index_chunks: the points built for one document, the id
\* f"{tenant_id}_{document_id}_{chunk_id}".
index_points(tenant_id, document_id, chunks) ==
    {[id |-> Chars(tenant_id) \o <<"_">> \o Chars(document_id) \o <<"_">>
                \o Chars(chunks[i].chunk_id),
      tenant_id |-> tenant_id, document_id |-> document_id,
      chunk_id |-> chunks[i].chunk_id, text |-> chunks[i].text,
      language |-> chunks[i].language] : i \in 1..Len(chunks)}

\* VectorStore.store: the points built for one document's embedded chunks, the
\* id f"{tenant_id}_{chunk_id}".
store_points(tenant_id, document_id, chunks) ==
    {[id |-> Chars(tenant_id) \o <<"_">> \o Chars(chunks[i].chunk_id),
      tenant_id |-> tenant_id, document_id |-> document_id,
      chunk_id |-> chunks[i].chunk_id, text |-> chunks[i].text,
      language |-> chunks[i].language] : i \in 1..Len(chunks)}

\* client.upsert: a point replaces the point of the same id.
Upsert(points, new) ==
    {p \in points : \A q \in new : q.id # p.id} \cup new

\* A point satisfies every condition of Filter(must=...).
Matches(p, must) ==
    \A cond \in must : p[cond.key] = cond.value

\* A plausible slip: the tenant condition is left out of the filter.
search_must_notenant(tenant_id, language) ==
    IF language # NoValue THEN {[key |-> "language", value |-> language]} ELSE {}

\* The must conditions QdrantService.search builds.
search_must(tenant_id, language) ==
    {[key |-> "tenant_id", value |-> tenant_id]}
        \cup (IF language # NoValue THEN {[key |-> "language", value |-> language]} ELSE {})

\* The must conditions HybridRetriever.retrieve builds.
retrieve_must(tenant_id, language, document_id) ==
    {[key |-> "tenant_id", value |-> tenant_id]}
        \cup (IF language # NoValue THEN {[key |-> "language", value |-> language]} ELSE {})
        \cup (IF document_id # NoValue
              THEN {[key |-> "document_id", value |-> document_id]} ELSE {})

\* A plausible slip: the tenant condition is left out of the delete filter.
delete_must_notenant(tenant_id, document_id) ==
    {[key |-> "document_id", value |-> document_id]}

\* The must conditions of both delete_document methods.
delete_must(tenant_id, document_id) ==
    {[key |-> "tenant_id", value |-> tenant_id],
     [key |-> "document_id", value |-> document_id]}

\* client.search: the results it can return are the sets of at most `limit`
\* matching points; which of them pass score_threshold depends on the
\* embeddings.
QdrantResults(collection, must, limit) ==
    {h \in SUBSET {p \in collections[collection] : Matches(p, must)} :
        Cardinality(h) <= limit}

NoSearch ==
    [made |-> FALSE, op |-> "none", claims |-> "t1", tenant |-> "t1",
     hits |-> {}, citations |-> <<>>]

VecEmpty ==
    /\ collections = [c \in {RetrievalCollection, KnowledgeCollection} |-> {}]
    /\ lastSearch = NoSearch

\* The top_k values and citation markers the requests and answers are tried with.
TopKs == {1, 2}
MarkerLists ==
    {<<>>} \cup {<<a>> : a \in ChunkIds} \cup {<<a, b>> : a, b \in ChunkIds}

\* settings.max_top_k and settings.max_chunks_per_query of the rag service.
max_top_k == 20
max_chunks_per_query == 10

Min(a, b) == IF a <= b THEN a ELSE b

\* ContextAssembler.assemble: the chunks kept are some of the retrieved ones,
\* at most min(top_k, max_chunks); which ones depends on text similarity,
\* scores and token counts.
assemble(chunks, top_k) ==
    {sel \in SUBSET chunks : Cardinality(sel) <= Min(top_k, max_chunks_per_query)}

\* The loop of Generator._extract_citations over the stripped marker contents:
\* a marker that names a chunk of chunk_map and was not seen yet adds a
\* citation built from that chunk.
RECURSIVE CiteLoop(_, _, _)
CiteLoop(matches, chunk_map, seen) ==
    IF matches = <<>> THEN <<>>
    ELSE LET chunk_id == Head(matches) IN
         IF chunk_id \in DOMAIN chunk_map /\ chunk_id \notin seen
         THEN <<[chunk_id |-> chunk_id,
                 document_id |-> chunk_map[chunk_id].document_id,
                 text_excerpt |-> chunk_map[chunk_id].text,
                 point |-> chunk_map[chunk_id].id]>>
              \o CiteLoop(Tail(matches), chunk_map, seen \cup {chunk_id})
         ELSE CiteLoop(Tail(matches), chunk_map, seen)

\* chunk_map = {c.chunk_id: c for c in chunks}: one chunk per chunk id, the last
\* of the list when several share the id.
ChunkMaps(chunks) ==
    {m \in [{c.chunk_id : c \in chunks} -> chunks] :
        \A k \in DOMAIN m : m[k].chunk_id = k}

\* POST /index of the retrieval service: QdrantService.index_chunks.
IndexChunks ==
    /\ \E tenant_id \in Tenants, document_id \in VecDocIds :
        collections' = [collections EXCEPT ![RetrievalCollection] =
            Upsert(@, index_points(tenant_id, document_id, DocChunks(document_id)))]
    /\ UNCHANGED <<lastSearch, fsmVars, ingestVars, citeVars, busVars, stageVars, ragVars, svcVars>>

\* The storage stage of the pipeline service: VectorStore.store.
StoreChunks ==
    /\ \E tenant_id \in Tenants, document_id \in VecDocIds :
        collections' = [collections EXCEPT ![KnowledgeCollection] =
            Upsert(@, store_points(tenant_id, document_id, DocChunks(document_id)))]
    /\ UNCHANGED <<lastSearch, fsmVars, ingestVars, citeVars, busVars, stageVars, ragVars, svcVars>>

\* POST /index with the ids of the request body, one chunk.
IndexRequest ==
    /\ \E tenant_id \in Tenants, document_id \in IndexDocumentIds,
          chunk_id \in IndexChunkIds :
        collections' = [collections EXCEPT ![RetrievalCollection] =
            Upsert(@, index_points(tenant_id, document_id,
                          <<[chunk_id |-> chunk_id, text |-> "lorem ipsum",
                             language |-> "en"]>>))]
    /\ UNCHANGED <<lastSearch, fsmVars, ingestVars, citeVars, busVars, stageVars, ragVars, svcVars>>

\* VectorStore.store of one embedded chunk of a document.
StoreRequest ==
    /\ \E tenant_id \in Tenants, document_id \in IndexDocumentIds,
          chunk_id \in IndexChunkIds :
        collections' = [collections EXCEPT ![KnowledgeCollection] =
            Upsert(@, store_points(tenant_id, document_id,
                          <<[chunk_id |-> chunk_id, text |-> "lorem ipsum",
                             language |-> "en"]>>))]
    /\ UNCHANGED <<lastSearch, fsmVars, ingestVars, citeVars, busVars, stageVars, ragVars, svcVars>>

\* POST /delete of the retrieval service and VectorStore.delete_document.
DeleteVectors ==
    /\ \E c \in {RetrievalCollection, KnowledgeCollection},
          tenant_id \in Tenants, document_id \in VecDocIds :
        /\ \E p \in collections[c] : Matches(p, delete_must(tenant_id, document_id))
        /\ collections' = [collections EXCEPT ![c] =
              {p \in @ : ~Matches(p, delete_must(tenant_id, document_id))}]
    /\ UNCHANGED <<lastSearch, fsmVars, ingestVars, citeVars, busVars, stageVars, ragVars, svcVars>>

\* QdrantService.search behind POST /search: the hit lists it can return.
search(tenant_id, language, top_k) ==
    QdrantResults(RetrievalCollection, search_must(tenant_id, language), top_k)

\* POST /search of the retrieval service, sent by a caller whose token claims
\* name tenant `claims`: the route reads request.tenant_id and no token.
Search ==
    /\ \E claims \in Tenants, tenant_id \in Tenants :
        \E hits \in UNION {search(tenant_id, language, top_k) :
                             language \in Languages \cup {NoValue}, top_k \in TopKs} :
            lastSearch' = [made |-> TRUE, op |-> "search", claims |-> claims,
                           tenant |-> tenant_id, hits |-> hits, citations |-> <<>>]
    /\ UNCHANGED <<collections, fsmVars, ingestVars, citeVars, busVars, stageVars, ragVars, svcVars>>

\* HybridRetriever.retrieve: the chunk lists it can return; the empty one also
\* when the search raises.
retrieve(tenant_id, language, document_id, top_k) ==
    QdrantResults(RagCollection, retrieve_must(tenant_id, language, document_id),
                  Min(top_k * 2, max_top_k))

\* RAGEngine.query: the responses it can give. Without chunks it answers at
\* once; otherwise the citations are extracted from the markers of the answer
\* (none in the fallback answer of a failed LLM call).
rag_query(tenant_id, language, document_id, top_k) ==
    UNION {IF chunks = {}
           THEN {[hits |-> chunks, citations |-> <<>>]}
           ELSE UNION {{[hits |-> chunks,
                         citations |-> CiteLoop(matches, chunk_map, {})] :
                            matches \in MarkerLists, chunk_map \in ChunkMaps(context)} :
                       context \in assemble(chunks, top_k)} :
           chunks \in retrieve(tenant_id, language, document_id, top_k)}

\* POST /query of the rag service, sent by a caller whose token claims name
\* tenant `claims`: RAGEngine.query for request.tenant_id, the guest tenant
\* when the body carries none.
Query ==
    /\ \E claims \in Tenants, tenant_id \in Tenants \cup {NoValue} :
        LET effective_tenant == IF tenant_id # NoValue THEN tenant_id ELSE GUEST_TENANT_ID
        IN \E response \in UNION {rag_query(effective_tenant, language, document_id, top_k) :
                                    language \in Languages,
                                    document_id \in {NoValue, "d1"}, top_k \in TopKs} :
              lastSearch' = [made |-> TRUE, op |-> "query", claims |-> claims,
                             tenant |-> effective_tenant, hits |-> response.hits,
                             citations |-> response.citations]
    /\ UNCHANGED <<collections, fsmVars, ingestVars, citeVars, busVars, stageVars, ragVars, svcVars>>

-----------------------------------------------------------------------------
(* Citation extraction: rag-service/app/modules/generation.py *)

\* The pieces an answer is put together from: markers of chunks that are in
\* the pool, a marker with blanks, a marker of an unknown chunk, stray
\* brackets and plain text.
Segments ==
    {<<"[", "a", "]">>, <<"[", "b", "]">>, <<"[", " ", "a", " ", "]">>,
     <<"[", "z", "]">>, <<"[">>, <<"]">>, <<"a">>, <<" ">>}

RECURSIVE AnswersOf(_)
AnswersOf(n) ==
    IF n = 0 THEN {<<>>}
    ELSE AnswersOf(n - 1) \cup {x \o seg : x \in AnswersOf(n - 1), seg \in Segments}

\* The retrieved chunks a context window is chosen from: two documents hold a
\* chunk of the same id.
CitePool ==
    {[id |-> <<"t1", "_", "a">>, chunk_id |-> <<"a">>, document_id |-> "d1", text |-> "alpha"],
     [id |-> <<"t1", "_", "b">>, chunk_id |-> <<"b">>, document_id |-> "d1", text |-> "beta"],
     [id |-> <<"t1", "_", "a">>, chunk_id |-> <<"a">>, document_id |-> "d2", text |-> "gamma"]}

Contexts ==
    {<<>>} \cup {<<c>> : c \in CitePool} \cup {<<c, d>> : c, d \in CitePool}

\* The number of characters other than "]" from position i on.
RECURSIVE RunLength(_, _)
RunLength(s, i) ==
    IF i > Len(s) \/ s[i] = "]" THEN 0 ELSE 1 + RunLength(s, i + 1)

\* re.findall(r'\[([^\]]+)\]', s) from position i on: the group of each match,
\* leftmost first, the scan resuming after a match.
RECURSIVE findall(_, _)
findall(s, i) ==
    IF i > Len(s) THEN <<>>
    ELSE IF s[i] = "[" /\ RunLength(s, i + 1) >= 1
                       /\ i + RunLength(s, i + 1) + 1 <= Len(s)
    THEN <<SubSeq(s, i + 1, i + RunLength(s, i + 1))>>
             \o findall(s, i + RunLength(s, i + 1) + 2)
    ELSE findall(s, i + 1)

\* str.strip().
RECURSIVE strip(_)
strip(x) ==
    IF x = <<>> THEN x
    ELSE IF Head(x) = " " THEN strip(Tail(x))
    ELSE IF x[Len(x)] = " " THEN strip(SubSeq(x, 1, Len(x) - 1))
    ELSE x

\* A plausible slip: the map is built from every retrieved chunk, not from the
\* chunks of the context window.
chunk_map_retrieved(chunk_list) ==
    [k \in {c.chunk_id : c \in CitePool} |->
        CHOOSE c \in CitePool : c.chunk_id = k]

\* chunk_map = {c.chunk_id: c for c in chunks}: the last chunk of an id wins.
chunk_map(chunk_list) ==
    [k \in {chunk_list[i].chunk_id : i \in 1..Len(chunk_list)} |->
        chunk_list[CHOOSE i \in 1..Len(chunk_list) :
                      /\ chunk_list[i].chunk_id = k
                      /\ \A j \in (i + 1)..Len(chunk_list) : chunk_list[j].chunk_id # k]]

\* Generator._extract_citations(answer, chunks).
extract_citations(text, chunk_list) ==
    LET matches == findall(text, 1)
    IN CiteLoop([i \in 1..Len(matches) |-> strip(matches[i])],
                chunk_map(chunk_list), {})

CiteIdle ==
    /\ answer = <<>>
    /\ window = <<>>
    /\ citations = <<>>
    /\ extracted = FALSE

\* The LLM has answered a prompt built from a context window.
CiteStart ==
    /\ answer \in AnswersOf(MaxSegments)
    /\ window \in Contexts
    /\ citations = <<>>
    /\ extracted = FALSE

\* Generator.generate after the LLM call: the citations of the response.
ExtractCitations ==
    /\ ~extracted
    /\ citations' = extract_citations(answer, window)
    /\ extracted' = TRUE
    /\ UNCHANGED <<answer, window, fsmVars, ingestVars, vecVars, busVars, stageVars, ragVars, svcVars>>

-----------------------------------------------------------------------------
(* The documents topic and the stage consumers: ingestion-service            *)
(* services/events.py, the kafka_handler.py of the extraction, chunking and  *)
(* retrieval services                                                        *)

Partitions == {"p0", "p1"}
Stages == {"extraction", "chunking", "retrieval"}
BusDocs == {"d1"}

\* The documents uploaded where the consumer loops are followed past a failure.
LoopDocs == {"d1", "d2"}

PipelineEvents ==
    <<"document.uploaded", "document.extracted", "document.chunked", "document.indexed">>

\* The partition the default partitioner picks for a record with this key.
PartitionOfKey(key) == "p0"

\* An event on the topic: its type and document and, of the payload, whether
\* it carries storage_key and whether its text (or chunk list) is non-empty.
Event(event_type, document_id, storage_key, text) ==
    [event_type |-> event_type, document_id |-> document_id,
     storage_key |-> storage_key, text |-> text]

NoCur == [active |-> FALSE, p |-> "p0", o |-> 0]

\* str.upper() on the strategy names of the settings.
Upper(name) ==
    CASE name = "semantic" -> "SEMANTIC"
      [] name = "paragraph" -> "PARAGRAPH"
      [] name = "sliding_window" -> "SLIDING_WINDOW"
      [] name = "sentence" -> "SENTENCE"
      [] OTHER -> name

\* The values of the enum ChunkingStrategy and settings.default_strategy.
ChunkingStrategy == {"semantic", "paragraph", "sliding_window", "sentence"}
default_strategy == "semantic"

\* ExtractionJob.max_attempts, read by can_retry.
max_attempts == 3

\* ExtractionKafkaHandler._handle_message: the events it can publish for an
\* event; none when it ignores it. get_object fails without a storage_key;
\* with one, the fetch or the engine can still raise.
extraction_outcomes(event) ==
    IF event.event_type # "document.uploaded" THEN {}
    ELSE IF ~event.storage_key
    THEN {Event("document.extraction_failed", event.document_id, FALSE, FALSE)}
    ELSE {Event("document.extracted", event.document_id, FALSE, TRUE),
          Event("document.extracted", event.document_id, FALSE, FALSE),
          Event("document.extraction_failed", event.document_id, FALSE, FALSE)}

\* ChunkingKafkaHandler._handle_message: it returns without an event when the
\* text is empty; ChunkingStrategy(strategy_name) raises ValueError for a name
\* that is no value of the enum.
chunking_outcomes(event) ==
    IF event.event_type # "document.extracted" \/ ~event.text THEN {}
    ELSE IF Upper(default_strategy) \notin ChunkingStrategy
    THEN {Event("document.chunking_failed", event.document_id, FALSE, FALSE)}
    ELSE {Event("document.chunked", event.document_id, FALSE, TRUE),
          Event("document.chunked", event.document_id, FALSE, FALSE),
          Event("document.chunking_failed", event.document_id, FALSE, FALSE)}

\* The retrieval service's _handle_message: it returns without an event when
\* the chunk list is empty.
indexing_outcomes(event) ==
    IF event.event_type # "document.chunked" \/ ~event.text THEN {}
    ELSE {Event("document.indexed", event.document_id, FALSE, FALSE),
          Event("document.indexing_failed", event.document_id, FALSE, FALSE)}

Outcomes(stage, event) ==
    CASE stage = "extraction" -> extraction_outcomes(event)
      [] stage = "chunking"   -> chunking_outcomes(event)
      [] stage = "retrieval"  -> indexing_outcomes(event)

BusEmpty ==
    /\ log = [p \in Partitions |-> <<>>]
    /\ pos = [s \in Stages |-> [p \in Partitions |-> 0]]
    /\ committed = [s \in Stages |-> [p \in Partitions |-> 0]]
    /\ cur = [s \in Stages |-> NoCur]
    /\ up = [s \in Stages |-> TRUE]
    /\ observed = [s \in Stages |-> <<>>]
    /\ handled = [s \in Stages |-> {}]
    /\ extractions = [d \in BusDocs \cup LoopDocs |-> 0]
    /\ attempts = [d \in BusDocs \cup LoopDocs |-> 0]
    /\ restarts = 0

OffBus == <<fsmVars, ingestVars, vecVars, citeVars, stageVars, ragVars, svcVars>>

\* EventPublisher.publish of a document.uploaded event, the document id as key:
\* as upload() builds it (no storage_key) or as the event schema defines it.
\* Document ids are generated, so one such event per document.
PublishUploadedOf(docs) ==
    /\ \E d \in docs, storage_key \in BOOLEAN :
        /\ \A p \in Partitions : \A i \in 1..Len(log[p]) :
              ~(log[p][i].event_type = "document.uploaded" /\ log[p][i].document_id = d)
        /\ log' = [log EXCEPT ![PartitionOfKey(d)] =
                     Append(@, Event("document.uploaded", d, storage_key, FALSE))]
    /\ UNCHANGED <<pos, committed, cur, up, observed, handled, extractions, attempts, restarts, OffBus>>

PublishUploaded == PublishUploadedOf(BusDocs)

\* `async for message in self._consumer` yields the next event of some
\* partition and run() calls _handle_message on it.
Poll(s) ==
    /\ up[s] /\ ~cur[s].active
    /\ \E p \in Partitions :
        /\ pos[s][p] < Len(log[p])
        /\ pos' = [pos EXCEPT ![s][p] = @ + 1]
        /\ cur' = [cur EXCEPT ![s] = [active |-> TRUE, p |-> p, o |-> pos[s][p] + 1]]
        /\ observed' = [observed EXCEPT ![s] =
              IF \E i \in 1..Len(PipelineEvents) :
                    PipelineEvents[i] = log[p][pos[s][p] + 1].event_type
              THEN Append(@, log[p][pos[s][p] + 1].event_type)
              ELSE @]
    /\ UNCHANGED <<log, committed, up, handled, extractions, attempts, restarts, OffBus>>

\* enable_auto_commit=True: the consumer commits, in the background, the
\* offsets of the events it has yielded.
AutoCommit(s) ==
    /\ up[s]
    /\ committed[s] # pos[s]
    /\ committed' = [committed EXCEPT ![s] = pos[s]]
    /\ UNCHANGED <<log, pos, cur, up, observed, handled, extractions, attempts, restarts, OffBus>>

\* Whether worker.process, and so the OCR/STT engine, was called on the way to
\* this outcome: it was for document.extracted; a failure came from the fetch
\* (no call) or from the engine (one call, no second one).
EngineCalls(stage, event, out) ==
    IF stage # "extraction" THEN {0}
    ELSE IF out.event_type = "document.extracted" THEN {1}
    ELSE IF event.storage_key THEN {0, 1}
    ELSE {0}

\* _handle_message returns: it has published its success or failure event
\* with send_and_wait(topic, value=...), no key, or has ignored the event.
Finish(s) ==
    /\ up[s] /\ cur[s].active
    /\ LET event == log[cur[s].p][cur[s].o]
       IN IF Outcomes(s, event) = {}
          THEN UNCHANGED <<log, extractions, attempts>>
          ELSE \E out \in Outcomes(s, event), p \in Partitions :
                /\ log' = [log EXCEPT ![p] = Append(@, out)]
                /\ extractions' = IF out.event_type = "document.extracted"
                                  THEN [extractions EXCEPT ![event.document_id] = @ + 1]
                                  ELSE extractions
                /\ \E n \in EngineCalls(s, event, out) :
                      attempts' = [attempts EXCEPT ![event.document_id] = @ + n]
    /\ handled' = [handled EXCEPT ![s] = @ \cup {<<cur[s].p, cur[s].o>>}]
    /\ cur' = [cur EXCEPT ![s] = NoCur]
    /\ UNCHANGED <<pos, committed, up, observed, restarts, OffBus>>

\* The outcome events of a stage that report success.
SuccessEvents == {"document.extracted", "document.chunked", "document.indexed"}

\* The handler returns and no dependency of its stage (object store, engine,
\* embedding model, vector store, broker) has failed: it publishes its success
\* event wherever its code can reach the publish.
FinishUnfailed(s) ==
    /\ Finish(s)
    /\ LET event == log[cur[s].p][cur[s].o]
           success == {out \in Outcomes(s, event) : out.event_type \in SuccessEvents}
       IN success # {} =>
             \E p \in Partitions :
                 /\ Len(log'[p]) = Len(log[p]) + 1
                 /\ log'[p][Len(log'[p])].event_type \in SuccessEvents

\* The process of a stage consumer dies; the handler it was in is gone.
Crash(s) ==
    /\ up[s]
    /\ restarts < MaxRestarts
    /\ up' = [up EXCEPT ![s] = FALSE]
    /\ cur' = [cur EXCEPT ![s] = NoCur]
    /\ restarts' = restarts + 1
    /\ UNCHANGED <<log, pos, committed, observed, handled, extractions, attempts, OffBus>>

\* lifespan shutdown: handler.stop() stops the consumer, which commits the
\* offsets of the events it has yielded, then the consumer task is cancelled.
Stop(s) ==
    /\ up[s]
    /\ restarts < MaxRestarts
    /\ up' = [up EXCEPT ![s] = FALSE]
    /\ committed' = [committed EXCEPT ![s] = pos[s]]
    /\ cur' = [cur EXCEPT ![s] = NoCur]
    /\ restarts' = restarts + 1
    /\ UNCHANGED <<log, pos, observed, handled, extractions, attempts, OffBus>>

\* start(): the consumer joins its group again and resumes from the committed
\* offsets.
Start(s) ==
    /\ ~up[s]
    /\ up' = [up EXCEPT ![s] = TRUE]
    /\ pos' = [pos EXCEPT ![s] = committed[s]]
    /\ UNCHANGED <<log, committed, cur, observed, handled, extractions, attempts, restarts, OffBus>>

-----------------------------------------------------------------------------
(* Chunking: chunking-service/app/chunker.py, api.py and kafka_handler.py,    *)
(* pipeline-service/app/stages/chunking.py; the handlers of the chunking and  *)
(* retrieval consumers over the payloads of the events handed to them         *)

\* A text is the sequence of its paragraphs, a paragraph the sequence of its
\* sentences and a sentence its length in characters, closing mark included:
\* one space separates the sentences of a paragraph, a blank line ("\n\n")
\* two paragraphs. The empty text is <<>>.
SentenceLens == {40, 2400}
MaxSentences == 2
MaxParagraphs == 2
MaxDeliveries == 2

ParagraphSet == UNION {[1..n -> SentenceLens] : n \in 1..MaxSentences}
Texts == UNION {[1..n -> ParagraphSet] : n \in 0..MaxParagraphs}

\* settings of the chunking service; the pipeline service has the same values
\* for default_chunk_size, chunk_overlap and min_chunk_size.
default_chunk_size == 512
overlap_tokens == 50
chunk_overlap == 50
min_chunk_size == 100

RECURSIVE SumSeq(_)
SumSeq(s) == IF s = <<>> THEN 0 ELSE Head(s) + SumSeq(Tail(s))

\* len() of sentences joined by ' '.
JoinedLen(sentences) ==
    IF sentences = <<>> THEN 0 ELSE SumSeq(sentences) + Len(sentences) - 1

\* len() of a text.
TextLen(text) ==
    IF text = <<>> THEN 0
    ELSE SumSeq([i \in 1..Len(text) |-> JoinedLen(text[i])]) + 2 * (Len(text) - 1)

\* re.split after a closing mark and white space: the sentences of a text,
\* those of all its paragraphs.
RECURSIVE split_sentences(_)
split_sentences(text) ==
    IF text = <<>> THEN <<>> ELSE Head(text) \o split_sentences(Tail(text))

\* _estimate_tokens: len(text) // 4, and at least 1 in the pipeline Chunker
\* (least = 1; TextChunker has least = 0).
estimate_tokens(chars, least) ==
    IF chars \div 4 < least THEN least ELSE chars \div 4

\* `for s in reversed(current)`: how many trailing sentences are kept as
\* overlap, up to the first that does not fit.
RECURSIVE KeepOverlap(_, _, _, _, _)
KeepOverlap(current, kept, kept_tokens, overlap, least) ==
    IF kept = Len(current) THEN kept
    ELSE LET s_tokens == estimate_tokens(current[Len(current) - kept], least)
         IN IF kept_tokens + s_tokens <= overlap
            THEN KeepOverlap(current, kept + 1, kept_tokens + s_tokens, overlap, least)
            ELSE kept

overlap_sentences(current, overlap, least) ==
    SubSeq(current, Len(current) - KeepOverlap(current, 0, 0, overlap, least) + 1,
           Len(current))

\* _create_chunk: the text and the chunk_index of a chunk.
create_chunk(text, chunk_index) == [text |-> text, chunk_index |-> chunk_index]

\* The `for sentence in sentences` loop of Chunker._chunk_sentences and of
\* TextChunker._semantic_chunk: the chunks closed so far, the sentences of the
\* open chunk and the next chunk_index.
RECURSIVE SentenceLoop(_, _, _, _, _, _, _, _)
SentenceLoop(sentences, chunks, current, current_tokens, chunk_index, size, overlap, least) ==
    IF sentences = <<>>
    THEN [chunks |-> chunks, current |-> current, chunk_index |-> chunk_index]
    ELSE LET sentence == Head(sentences)
             sentence_tokens == estimate_tokens(sentence, least)
             kept == overlap_sentences(current, overlap, least)
             kept_tokens == SumSeq([i \in 1..Len(kept) |-> estimate_tokens(kept[i], least)])
         IN IF current_tokens + sentence_tokens > size /\ current # <<>>
            THEN SentenceLoop(Tail(sentences),
                              Append(chunks, create_chunk(<<current>>, chunk_index)),
                              Append(kept, sentence), kept_tokens + sentence_tokens,
                              chunk_index + 1, size, overlap, least)
            ELSE SentenceLoop(Tail(sentences), chunks,
                              Append(current, sentence), current_tokens + sentence_tokens,
                              chunk_index, size, overlap, least)

\* Chunker._chunk_sentences: the final chunk is kept when its estimated tokens
\* reach min_size.
chunk_sentences(text, start_index) ==
    LET r == SentenceLoop(split_sentences(text), <<>>, <<>>, 0, start_index,
                          default_chunk_size, chunk_overlap, 1)
    IN IF r.current # <<>> /\ estimate_tokens(JoinedLen(r.current), 1) >= min_chunk_size
       THEN Append(r.chunks, create_chunk(<<r.current>>, r.chunk_index))
       ELSE r.chunks

\* A plausible slip: the index is not advanced past the chunks of a split
\* paragraph.
advance_index_stale(chunk_index, sub_chunks) == chunk_index

\* chunk_index += len(sub_chunks)
advance_index(chunk_index, sub_chunks) == chunk_index + Len(sub_chunks)

\* The `for para in paragraphs` loop of Chunker._chunk_paragraphs.
RECURSIVE ParagraphLoop(_, _, _, _, _)
ParagraphLoop(paragraphs, chunks, current_text, current_tokens, chunk_index) ==
    IF paragraphs = <<>>
    THEN [chunks |-> chunks, current_text |-> current_text, chunk_index |-> chunk_index]
    ELSE LET para == Head(paragraphs)
             para_tokens == estimate_tokens(JoinedLen(para), 1)
             flushed == IF current_text # <<>>
                        THEN Append(chunks, create_chunk(current_text, chunk_index))
                        ELSE chunks
             flushed_index == IF current_text # <<>> THEN chunk_index + 1 ELSE chunk_index
             sub_chunks == chunk_sentences(<<para>>, flushed_index)
         IN IF para_tokens > default_chunk_size
            THEN ParagraphLoop(Tail(paragraphs), flushed \o sub_chunks, <<>>, 0,
                               advance_index(flushed_index, sub_chunks))
            ELSE IF current_tokens + para_tokens > default_chunk_size
            THEN ParagraphLoop(Tail(paragraphs), flushed, <<para>>, para_tokens,
                               flushed_index)
            ELSE ParagraphLoop(Tail(paragraphs), chunks, Append(current_text, para),
                               current_tokens + para_tokens, chunk_index)

\* Chunker._chunk_paragraphs: the remaining buffer is kept when its estimated
\* tokens reach min_size.
chunk_paragraphs(paragraphs) ==
    LET r == ParagraphLoop(paragraphs, <<>>, <<>>, 0, 0)
    IN IF r.current_text # <<>>
          /\ estimate_tokens(TextLen(r.current_text), 1) >= min_chunk_size
       THEN Append(r.chunks, create_chunk(r.current_text, r.chunk_index))
       ELSE r.chunks

\* Chunker.chunk of the pipeline service.
chunk(text) ==
    IF TextLen(text) < min_chunk_size THEN <<create_chunk(text, 0)>>
    ELSE IF Len(text) > 1 THEN chunk_paragraphs(text)
    ELSE chunk_sentences(text, 0)

\* TextChunker._semantic_chunk: the texts of its ChunkResults.
semantic_chunk(text, chunk_size, overlap) ==
    LET r == SentenceLoop(split_sentences(text), <<>>, <<>>, 0, 0, chunk_size, overlap, 0)
        chunks == IF r.current # <<>>
                     /\ estimate_tokens(JoinedLen(r.current), 0) >= min_chunk_size
                  THEN Append(r.chunks, create_chunk(<<r.current>>, r.chunk_index))
                  ELSE r.chunks
    IN [i \in 1..Len(chunks) |-> chunks[i].text]

\* chunk_document behind POST /chunk, strategy semantic: one counter runs over
\* the results of all segments.
RECURSIVE chunk_document(_, _, _)
chunk_document(segments, all_chunks, chunk_index) ==
    IF segments = <<>> THEN all_chunks
    ELSE LET results == semantic_chunk(Head(segments), default_chunk_size, overlap_tokens)
         IN chunk_document(Tail(segments),
                all_chunks \o [i \in 1..Len(results) |->
                                  create_chunk(results[i], chunk_index + i - 1)],
                chunk_index + Len(results))

\* An event as a handler reads it and as it publishes it.
StageEvent(event_type, tenant_id, document_id, text, chunks, count) ==
    [event_type |-> event_type, tenant_id |-> tenant_id, document_id |-> document_id,
     text |-> text, chunks |-> chunks, count |-> count]

NoEvent == StageEvent("none", "", "", <<>>, <<>>, 0)

\* ChunkingKafkaHandler._handle_message over an event's payload: the event it
\* publishes, chunk_id f"chunk_{document_id}_{i:04d}" and index i.
chunking_handler(event) ==
    IF event.event_type # "document.extracted" \/ event.text = <<>> THEN NoEvent
    ELSE IF Upper(default_strategy) \notin ChunkingStrategy
    THEN StageEvent("document.chunking_failed", event.tenant_id, event.document_id,
                    <<>>, <<>>, 0)
    ELSE LET results == semantic_chunk(event.text, default_chunk_size, overlap_tokens)
             chunks == [i \in 1..Len(results) |->
                          [chunk_id |-> <<"chunk", event.document_id, i - 1>>,
                           index |-> i - 1, text |-> results[i]]]
         IN StageEvent("document.chunked", event.tenant_id, event.document_id,
                       <<>>, chunks, Len(chunks))

\* The retrieval service's _handle_message over an event's payload: the event
\* it publishes, vectors_indexed = len(points); ok is whether the embedding
\* model and the vector store answered.
indexing_handler(event, ok) ==
    IF event.event_type # "document.chunked" \/ event.chunks = <<>> THEN NoEvent
    ELSE IF ok
    THEN StageEvent("document.indexed", event.tenant_id, event.document_id,
                    <<>>, <<>>, Len(event.chunks))
    ELSE StageEvent("document.indexing_failed", event.tenant_id, event.document_id,
                    <<>>, <<>>, 0)

NoRun == [via |-> "none", text |-> <<>>, chunks |-> <<>>]

StageIdle ==
    /\ deliveries = <<>>
    /\ chunkRun = NoRun

OffStage == <<fsmVars, ingestVars, citeVars, busVars, ragVars, svcVars>>

\* The texts of the document.extracted events handed to the chunking consumer.
ExtractedTexts == {<<>>, <<<<40>>>>, <<<<2400, 40>>, <<2400>>>>}

\* A text is about to be chunked.
ChunkStart ==
    /\ deliveries = <<>>
    /\ chunkRun \in {[NoRun EXCEPT !.text = text] : text \in Texts}

\* POST /chunk with the segments of the text, one per paragraph.
ChunkDocument ==
    /\ chunkRun.via = "none"
    /\ chunkRun' = [chunkRun EXCEPT !.via = "POST /chunk",
           !.chunks = chunk_document([i \in 1..Len(chunkRun.text) |-> <<chunkRun.text[i]>>],
                                     <<>>, 0)]
    /\ UNCHANGED <<deliveries, vecVars, OffStage>>

\* The chunking stage of the pipeline service: Chunker.chunk on the text.
PipelineChunk ==
    /\ chunkRun.via = "none"
    /\ chunkRun' = [chunkRun EXCEPT !.via = "Chunker.chunk", !.chunks = chunk(chunkRun.text)]
    /\ UNCHANGED <<deliveries, vecVars, OffStage>>

\* A document.extracted event is delivered to the chunking consumer, for the
\* first time or again.
HandleExtracted ==
    /\ Len(deliveries) < MaxDeliveries
    /\ \E document_id \in BusDocs, text \in ExtractedTexts :
        LET event == StageEvent("document.extracted", "t1", document_id, text, <<>>, 0)
        IN deliveries' = Append(deliveries,
               [stage |-> "chunking", event |-> event, out |-> chunking_handler(event),
                points |-> collections[RetrievalCollection]])
    /\ UNCHANGED <<chunkRun, vecVars, OffStage>>

\* A document.chunked event is delivered to the retrieval consumer, for the
\* first time or again: index_chunks upserts its points.
HandleChunked ==
    /\ Len(deliveries) < MaxDeliveries
    /\ \E tenant_id \in Tenants, document_id \in VecDocIds, ok \in BOOLEAN :
       \E chunks \in {<<>>, DocChunks(document_id)} :
        LET event == StageEvent("document.chunked", tenant_id, document_id, <<>>,
                                chunks, Len(chunks))
            out == indexing_handler(event, ok)
            stored == IF out.event_type = "document.indexed"
                      THEN Upsert(collections[RetrievalCollection],
                                  index_points(tenant_id, document_id, chunks))
                      ELSE collections[RetrievalCollection]
        IN /\ collections' = [collections EXCEPT ![RetrievalCollection] = stored]
           /\ deliveries' = Append(deliveries,
                  [stage |-> "retrieval", event |-> event, out |-> out,
                   points |-> stored])
    /\ UNCHANGED <<chunkRun, lastSearch, OffStage>>

-----------------------------------------------------------------------------
(* The answering path: rag-service/app/engine.py, modules/context.py,        *)
(* modules/generation.py                                                      *)

\* How many chunks a retrieval returns at most in the runs below.
MaxRetrieved == 3

\* settings.max_context_tokens.
max_context_tokens == 3000

\* The top_k values of the queries.
QueryTopKs == {1, 2, 3, 12}

\* The chunks a search can return, as RetrievedChunk: the text by name and
\* length in characters, the score in hundredths. "alpha2" is a near-copy of
\* "alpha"; "delta" is two characters long. `id` is the id of the point.
RetrievedPool ==
    {[id |-> <<"t1", "_", "a">>, chunk_id |-> <<"a">>, document_id |-> "d1",
      text |-> [name |-> "alpha", chars |-> 8000], language |-> "en", score |-> 90],
     [id |-> <<"t1", "_", "b">>, chunk_id |-> <<"b">>, document_id |-> "d1",
      text |-> [name |-> "beta", chars |-> 6000], language |-> "en", score |-> 80],
     [id |-> <<"t1", "_", "c">>, chunk_id |-> <<"c">>, document_id |-> "d2",
      text |-> [name |-> "gamma", chars |-> 400], language |-> "en", score |-> 75],
     [id |-> <<"t1", "_", "d">>, chunk_id |-> <<"d">>, document_id |-> "d2",
      text |-> [name |-> "alpha2", chars |-> 8000], language |-> "en", score |-> 60],
     [id |-> <<"t1", "_", "e">>, chunk_id |-> <<"e">>, document_id |-> "d2",
      text |-> [name |-> "epsilon", chars |-> 4800], language |-> "en", score |-> 50],
     [id |-> <<"t1", "_", "f">>, chunk_id |-> <<"f">>, document_id |-> "d2",
      text |-> [name |-> "delta", chars |-> 2], language |-> "en", score |-> 40]}

\* client.search returns its hits by score, best first.
RECURSIVE ByScore(_)
ByScore(hits) ==
    IF hits = {} THEN <<>>
    ELSE LET best == CHOOSE h \in hits : \A g \in hits : g.score <= h.score
         IN <<best>> \o ByScore(hits \ {best})

\* Twelve short chunks of one long document, as a search returns them.
ShortChunkNames ==
    <<"g01", "g02", "g03", "g04", "g05", "g06", "g07", "g08", "g09", "g10", "g11", "g12">>

ShortChunks ==
    [i \in 1..Len(ShortChunkNames) |->
        [id |-> <<"t1", "_", ShortChunkNames[i]>>, chunk_id |-> <<ShortChunkNames[i]>>,
         document_id |-> "d3", text |-> [name |-> ShortChunkNames[i], chars |-> 40],
         language |-> "en", score |-> 45 - i]]

\* What HybridRetriever.retrieve can return for top_k: at most
\* min(top_k * 2, max_top_k) hits.
RetrievedLists(top_k) ==
    {ByScore(hits) : hits \in {h \in SUBSET RetrievedPool :
        Cardinality(h) <= Min(MaxRetrieved, Min(top_k * 2, max_top_k))}}
    \cup (IF Len(ShortChunks) <= Min(top_k * 2, max_top_k) THEN {ShortChunks} ELSE {})

\* ContextAssembler._estimate_tokens: max(1, len(text) // 4).
estimate_context_tokens(text) == estimate_tokens(text.chars, 1)

\* ContextAssembler._text_similarity in hundredths: SequenceMatcher's ratio
\* over the texts of the pool.
text_similarity(text1, text2) ==
    IF text1.name = text2.name THEN 100
    ELSE IF {text1.name, text2.name} = {"alpha", "alpha2"} THEN 97
    ELSE 30

\* settings.deduplication_threshold, in hundredths.
dedup_threshold == 95

\* ContextAssembler._deduplicate: a chunk is kept unless it is similar to one
\* kept before it.
RECURSIVE DedupLoop(_, _)
DedupLoop(chunks, unique) ==
    IF chunks = <<>> THEN unique
    ELSE LET chunk_ == Head(chunks)
             is_duplicate == \E i \in 1..Len(unique) :
                 text_similarity(chunk_.text, unique[i].text) > dedup_threshold
         IN DedupLoop(Tail(chunks), IF is_duplicate THEN unique ELSE Append(unique, chunk_))

deduplicate(chunks) == DedupLoop(chunks, <<>>)

\* The loop of _score_chunks: final_score = 0.7 * relevance + 0.3 * diversity,
\* in thousandths; diversity is 1.0 for the first chunk of a document, 0.7 after.
RECURSIVE ScoreLoop(_, _, _)
ScoreLoop(chunks, i, seen_docs) ==
    IF i > Len(chunks) THEN <<>>
    ELSE LET chunk_ == chunks[i]
             diversity == IF chunk_.document_id \notin seen_docs THEN 100 ELSE 70
         IN <<[id |-> chunk_.id, chunk_id |-> chunk_.chunk_id,
               document_id |-> chunk_.document_id, text |-> chunk_.text,
               language |-> chunk_.language, relevance_score |-> chunk_.score,
               diversity_score |-> diversity,
               final_score |-> 7 * chunk_.score + 3 * diversity, rank |-> i]>>
              \o ScoreLoop(chunks, i + 1, seen_docs \cup {chunk_.document_id})

\* list.sort(key=final_score, reverse=True): stable, equal scores keep their order.
RECURSIVE SortByFinalScore(_)
SortByFinalScore(scored) ==
    IF scored = <<>> THEN <<>>
    ELSE LET rest == SortByFinalScore(SubSeq(scored, 1, Len(scored) - 1))
             last == scored[Len(scored)]
             before == SelectSeq(rest, LAMBDA r : r.final_score >= last.final_score)
             after == SelectSeq(rest, LAMBDA r : r.final_score < last.final_score)
         IN before \o <<last>> \o after

\* ContextAssembler._score_chunks: scored, sorted, ranks renumbered.
score_chunks(chunks) ==
    LET sorted == SortByFinalScore(ScoreLoop(chunks, 1, {}))
    IN [i \in 1..Len(sorted) |-> [sorted[i] EXCEPT !.rank = i]]

\* A plausible slip: the test of the token budget always passes.
fits_budget_always(current_tokens, chunk_tokens) == TRUE

\* `current_tokens + chunk_tokens <= self.max_tokens`.
fits_budget(current_tokens, chunk_tokens) ==
    current_tokens + chunk_tokens <= max_context_tokens

\* The loop of _select_within_budget: it ends when min(top_k, max_chunks)
\* chunks are selected; a chunk that does not fit the budget is passed over
\* and the loop goes on with the next.
RECURSIVE SelectLoop(_, _, _, _)
SelectLoop(chunks, selected, current_tokens, top_k) ==
    IF chunks = <<>> \/ Len(selected) >= Min(top_k, max_chunks_per_query) THEN selected
    ELSE LET chunk_tokens == estimate_context_tokens(Head(chunks).text)
         IN IF fits_budget(current_tokens, chunk_tokens)
            THEN SelectLoop(Tail(chunks), Append(selected, Head(chunks)),
                            current_tokens + chunk_tokens, top_k)
            ELSE SelectLoop(Tail(chunks), selected, current_tokens, top_k)

select_within_budget(chunks, top_k) == SelectLoop(chunks, <<>>, 0, top_k)

\* ContextAssembler.assemble: the ranked list and the window built from it.
assemble_context(chunks, top_k) ==
    IF chunks = <<>> THEN [ranked |-> <<>>, chunks |-> <<>>, total_tokens |-> 0]
    ELSE LET scored_chunks == score_chunks(deduplicate(chunks))
             selected == select_within_budget(scored_chunks, top_k)
         IN [ranked |-> scored_chunks, chunks |-> selected,
             total_tokens |-> SumSeq([i \in 1..Len(selected) |->
                                        estimate_context_tokens(selected[i].text)])]

NoContext == [top_k |-> 0, retrieved |-> <<>>, done |-> FALSE,
              ranked |-> <<>>, chunks |-> <<>>, total_tokens |-> 0]

\* Retrieval has returned and the chunks are about to be assembled.
ContextStart ==
    contextRun \in UNION {{[NoContext EXCEPT !.top_k = top_k, !.retrieved = retrieved] :
                              retrieved \in RetrievedLists(top_k)} : top_k \in QueryTopKs}

\* ContextAssembler.assemble(chunks, top_k).
Assemble ==
    /\ ~contextRun.done
    /\ LET context == assemble_context(contextRun.retrieved, contextRun.top_k)
       IN contextRun' = [contextRun EXCEPT !.done = TRUE, !.ranked = context.ranked,
                             !.chunks = context.chunks,
                             !.total_tokens = context.total_tokens]
    /\ UNCHANGED <<ragRun, normRun, conversations, turns, lastDelete, fsmVars, ingestVars, vecVars,
                   citeVars, busVars, stageVars, svcVars>>

\* The phrases of the responses, each a text of one token; the Arabic ones
\* are written in Latin letters here.
NoResultsArabic == <<"lam atamakkan min al-uthur ala malumat dhat sila">>
NoResultsEnglish == <<"I could not find relevant information in the available documents.">>
UnableToGenerate == <<"I am unable to generate a response at this time.">>

\* The tokens that are Arabic text, and the language a text is written in.
ArabicTokens == {NoResultsArabic[1], "la ajid", "ghayr mutaha"}

LanguageOfText(text) ==
    IF \E i \in 1..Len(text) : text[i] \in ArabicTokens THEN "ar" ELSE "en"

\* refusal_patterns of _calculate_confidence: "cannot find", "not available",
\* "no information" and the two Arabic phrases.
refusal_patterns ==
    {"cannot find", "not available", "no information", "la ajid", "ghayr mutaha"}

\* str.lower() on the tokens of an answer.
lower(text) ==
    [i \in 1..Len(text) |->
        CASE text[i] = "I cannot find this" -> "i cannot find this"
          [] text[i] = "No Information"    -> "no information"
          [] text[i] = "Paris"             -> "paris"
          [] OTHER -> text[i]]

\* `p in text`: the tokens of which pattern p is a substring.
Holds(token, p) ==
    CASE p = "cannot find"    -> token = "i cannot find this"
      [] p = "no information" -> token = "no information"
      [] OTHER -> token = p

\* is_refusal = any(p in answer.lower() for p in refusal_patterns).
is_refusal(text) ==
    \E p \in refusal_patterns : \E i \in 1..Len(text) : Holds(lower(text)[i], p)

\* round(min(citation_ratio * 0.8 + 0.2, 0.95), 2) in hundredths, for
\* citation_ratio = cited / of; with of <= max_chunks_per_query no value lies
\* halfway between two hundredths.
base_score(cited, of) ==
    IF 80 * cited + 20 * of >= 95 * of THEN 95
    ELSE (2 * (80 * cited + 20 * of) + of) \div (2 * of)

\* Generator._calculate_confidence, in hundredths: the test for citations
\* comes first, the test for a refusal after it.
calculate_confidence(text, cited, context) ==
    IF cited = <<>> THEN 30
    ELSE IF is_refusal(text) THEN 90
    ELSE base_score(Len(cited), IF Len(context) >= 1 THEN Len(context) ELSE 1)

\* The pieces the LLM's answers are put together from.
AnswerPieces ==
    {<<"I cannot find this">>, <<"No Information">>, <<"la ajid">>, <<"Paris">>,
     <<"[", "a", "]">>, <<"[", "b", "]">>, <<"[", "f", "]">>, <<"[", "z", "]">>}

\* What the POST to /api/chat can come to: a transport error (connection
\* error, timeout, status of raise_for_status), a body that is no JSON, or a
\* message with content.
LlmOutcomes ==
    {[kind |-> "http_error", content |-> <<>>], [kind |-> "bad_body", content |-> <<>>]}
    \cup {[kind |-> "ok", content |-> x] : x \in {<<>>} \cup AnswerPieces}
    \cup {[kind |-> "ok", content |-> x \o y] : x, y \in AnswerPieces}

NoLlm == [kind |-> "none", content |-> <<>>]

RAGResponse(raised, text, cited, confidence, language, reason, llm_calls) ==
    [raised |-> raised, answer |-> text, citations |-> cited, confidence |-> confidence,
     language |-> language, reason |-> reason, llm_calls |-> llm_calls]

NoResponse == RAGResponse(FALSE, <<>>, <<>>, 0, "", "none", 0)

\* Generator.generate: httpx.HTTPError is caught and answered with the fixed
\* English sentence; any other exception leaves the call.
generate(llm, context, language) ==
    CASE llm.kind = "http_error" ->
            RAGResponse(FALSE, UnableToGenerate, <<>>, 0, language, "llm_error", 1)
      [] llm.kind = "bad_body" ->
            RAGResponse(TRUE, <<>>, <<>>, 0, language, "raised", 1)
      [] OTHER ->
            LET cited == extract_citations(llm.content, context)
            IN RAGResponse(FALSE, llm.content, cited,
                           calculate_confidence(llm.content, cited, context),
                           language, "generated", 1)

\* A plausible slip: the English sentence for every language.
get_no_results_message_english(language) == NoResultsEnglish

\* RAGEngine._get_no_results_message.
get_no_results_message(language) ==
    IF language = "ar" THEN NoResultsArabic ELSE NoResultsEnglish

\* RAGEngine.query after query understanding and retrieval: without chunks it
\* returns at once; otherwise it assembles the context and calls generate.
engine_query(language, top_k, retrieved, llm) ==
    IF retrieved = <<>>
    THEN RAGResponse(FALSE, get_no_results_message(language), <<>>, 90, language,
                     "no_chunks_found", 0)
    ELSE generate(llm, assemble_context(retrieved, top_k).chunks, language)

NoQuery == [language |-> "", top_k |-> 0, search |-> "", retrieved |-> <<>>,
            done |-> FALSE, context |-> <<>>, llm |-> NoLlm, response |-> NoResponse]

\* HybridRetriever.retrieve around client.search: the hits of a search that
\* returned; an exception of the search is logged and answered with [].
retrieve_hits(outcome, hits) == IF outcome = "raised" THEN <<>> ELSE hits

\* A query has been understood and retrieval has returned, the search having
\* returned or raised: the hits are in the language of the query, which is a
\* condition of the search filter.
AnswerStart ==
    ragRun \in UNION {{[NoQuery EXCEPT !.language = language, !.top_k = top_k,
                           !.search = outcome,
                           !.retrieved = retrieve_hits(outcome,
                                [i \in 1..Len(retrieved) |->
                                    [retrieved[i] EXCEPT !.language = language]])] :
                          language \in Languages, retrieved \in RetrievedLists(top_k),
                          outcome \in {"returned", "raised"}} :
                      top_k \in QueryTopKs}

\* RAGEngine.query from step 3 on, the LLM answering in one of its ways.
EngineQuery ==
    /\ ~ragRun.done
    /\ \E llm \in LlmOutcomes :
        LET response == engine_query(ragRun.language, ragRun.top_k, ragRun.retrieved, llm)
        IN ragRun' = [ragRun EXCEPT !.done = TRUE,
               !.context = assemble_context(ragRun.retrieved, ragRun.top_k).chunks,
               !.llm = IF response.llm_calls = 0 THEN NoLlm ELSE llm,
               !.response = response]
    /\ UNCHANGED <<contextRun, normRun, conversations, turns, lastDelete, fsmVars, ingestVars,
                   vecVars, citeVars, busVars, stageVars, svcVars>>

-----------------------------------------------------------------------------
(* Text normalization: language-service/.../services/normalization.py        *)

\* The length of the texts normalized below, in characters.
MaxChars == 3

\* The characters of the texts: Latin letters, a digit, a blank, the ligature
\* U+FB01, and of Arabic the alef U+0627, the alef with hamza U+0623, alef
\* maksura U+0649 and the combining marks U+0653 and U+0654.
NormChars ==
    {"a", "l", "r", "n", "0", " ", "fi_ligature",
     "alef", "alef_hamza", "alef_maksura", "madda_above", "hamza_above"}

RECURSIVE TextsOf(_)
TextsOf(n) ==
    IF n = 0 THEN {<<>>}
    ELSE TextsOf(n - 1) \cup {Append(x, c) : x \in TextsOf(n - 1), c \in NormChars}

\* The canonical compositions of Unicode among these characters.
Compose(starter, mark) ==
    CASE starter = "alef" /\ mark = "hamza_above" -> "alef_hamza"
      [] starter = "alef" /\ mark = "madda_above" -> "alef_madda"
      [] starter = "yeh" /\ mark = "hamza_above"  -> "yeh_hamza"
      [] OTHER -> ""

\* unicodedata.normalize("NFC", text): a combining mark is composed with the
\* starter right before it when the pair has a composite.
RECURSIVE NfcLoop(_, _)
NfcLoop(text, out) ==
    IF text = <<>> THEN out
    ELSE IF out # <<>> /\ Compose(out[Len(out)], Head(text)) # ""
    THEN NfcLoop(Tail(text),
                 [out EXCEPT ![Len(out)] = Compose(out[Len(out)], Head(text))])
    ELSE NfcLoop(Tail(text), Append(out, Head(text)))

unicode_normalize(text) == NfcLoop(text, <<>>)

\* [a-z], [0-9] and \w of the patterns.
AsciiLower(c) == c \in {"a", "l", "r", "n", "m", "o", "f", "i"}
Digit(c) == c \in {"0", "1"}
WordChar(c) == c \notin {" ", "madda_above", "hamza_above"}

\* \b at the gap before position i of text.
Boundary(text, i) ==
    LET left == i > 1 /\ WordChar(text[i - 1])
        right == i <= Len(text) /\ WordChar(text[i])
    IN left # right

\* re.sub(r'\bl\b(?=[0-9])', '1', text): an "l" that is a word of its own and
\* has a digit right after it.
ocr_l_to_1(text) ==
    [i \in 1..Len(text) |->
        IF /\ text[i] = "l"
           /\ Boundary(text, i)
           /\ Boundary(text, i + 1)
           /\ i < Len(text)
           /\ Digit(text[i + 1])
        THEN "1" ELSE text[i]]

\* re.sub(r'(?<=[a-z])0(?=[a-z])', 'o', text): a zero between two lower-case
\* ASCII letters.
ocr_0_to_o(text) ==
    [i \in 1..Len(text) |->
        IF /\ text[i] = "0"
           /\ i > 1
           /\ i < Len(text)
           /\ AsciiLower(text[i - 1])
           /\ AsciiLower(text[i + 1])
        THEN "o" ELSE text[i]]

\* re.sub(r'rn', 'm', text): leftmost matches, the scan resuming after each.
RECURSIVE rn_to_m(_)
rn_to_m(text) ==
    IF Len(text) < 2 THEN text
    ELSE IF text[1] = "r" /\ text[2] = "n"
    THEN <<"m">> \o rn_to_m(SubSeq(text, 3, Len(text)))
    ELSE <<text[1]>> \o rn_to_m(Tail(text))

\* TextNormalizer._ocr_cleanup: the three substitutions in their order.
ocr_cleanup(text) ==
    rn_to_m(ocr_0_to_o(ocr_l_to_1(text)))

\* re.sub(r' +', ' ', text) and str.rstrip() of a line.
RECURSIVE collapse_spaces(_)
collapse_spaces(text) ==
    IF Len(text) < 2 THEN text
    ELSE IF text[1] = " " /\ text[2] = " " THEN collapse_spaces(Tail(text))
    ELSE <<text[1]>> \o collapse_spaces(Tail(text))

RECURSIVE rstrip(_)
rstrip(text) ==
    IF text # <<>> /\ text[Len(text)] = " " THEN rstrip(SubSeq(text, 1, Len(text) - 1))
    ELSE text

\* TextNormalizer._normalize_whitespace on a text of one line.
normalize_whitespace(text) == rstrip(collapse_spaces(text))

\* TextNormalizer._normalize_arabic with the rules of "ar": the alef variants
\* become alef, alef maksura becomes yeh.
normalize_arabic(text) ==
    [i \in 1..Len(text) |->
        CASE text[i] \in {"alef_hamza", "alef_madda"} -> "alef"
          [] text[i] = "alef_maksura" -> "yeh"
          [] OTHER -> text[i]]

\* TextNormalizer._normalize_english with the rules of "en": the ligature is
\* written out; the quotes it replaces are not among the characters.
RECURSIVE normalize_english(_)
normalize_english(text) ==
    IF text = <<>> THEN <<>>
    ELSE (IF Head(text) = "fi_ligature" THEN <<"f", "i">> ELSE <<Head(text)>>)
            \o normalize_english(Tail(text))

\* TextNormalizer.normalize(text, language).normalized_text: NFC, OCR cleanup,
\* whitespace, then the rules of the language.
normalize(text, language) ==
    LET cleaned == normalize_whitespace(ocr_cleanup(unicode_normalize(text)))
    IN CASE language = "ar" -> normalize_arabic(cleaned)
         [] language = "en" -> normalize_english(cleaned)
         [] OTHER -> cleaned

NoNorm == [text |-> <<>>, language |-> "", outputs |-> <<>>]

\* A text of a language is about to be normalized.
NormStart ==
    normRun \in {[NoNorm EXCEPT !.text = text, !.language = language] :
                    text \in TextsOf(MaxChars), language \in Languages}

\* normalize on the text, and then on the normalized text it returned.
Normalize ==
    /\ Len(normRun.outputs) < 2
    /\ LET input == IF normRun.outputs = <<>> THEN normRun.text
                    ELSE normRun.outputs[Len(normRun.outputs)]
       IN normRun' = [normRun EXCEPT
              !.outputs = Append(@, normalize(input, normRun.language))]
    /\ UNCHANGED <<ragRun, contextRun, conversations, turns, lastDelete, fsmVars, ingestVars,
                   vecVars, citeVars, busVars, stageVars, svcVars>>

-----------------------------------------------------------------------------
(* Conversation history: rag-service/app/modules/query_understanding.py      *)

\* How many process calls are made on the instance.
MaxTurns == 7

\* settings.max_conversation_history.
max_conversation_history == 5

ConversationIds == {"k1", "k2"}
RawQueries == {"refund  policy??", "opening hours"}

\* QueryUnderstanding._normalize_query: blanks collapsed, a run of [?!.] made
\* one "?".
normalize_query(query) ==
    CASE query = "refund  policy??" -> "refund policy?"
      [] OTHER -> query

\* history[-max_history:].
LastOf(history, n) ==
    IF Len(history) <= n THEN history ELSE SubSeq(history, Len(history) - n + 1, Len(history))

\* _update_conversation: the query is appended to the list of the cache, and
\* a list longer than max_history is replaced in the cache by its last
\* max_history entries.
update_conversation(history, query) ==
    LastOf(Append(history, query), max_conversation_history)

\* _get_conversation_context as the caller of process sees it: [] without an
\* id and for an id not in the cache; for a cached id the list object of the
\* cache itself, to which _update_conversation appends before process returns
\* (the slice of the trim is a new list, the returned one keeps every entry).
conversation_context(cache, conversation_id, normalized) ==
    IF conversation_id = NoValue THEN <<>>
    ELSE IF cache[conversation_id] = <<>> THEN <<>>
    ELSE Append(cache[conversation_id], normalized)

ConversationsEmpty ==
    /\ conversations = [k \in ConversationIds |-> <<>>]
    /\ turns = <<>>

\* QueryUnderstanding.process(query) on the one instance.
Process ==
    /\ Len(turns) < MaxTurns
    /\ \E conversation_id \in ConversationIds \cup {NoValue}, query \in RawQueries :
        LET normalized == normalize_query(query)
        IN /\ turns' = Append(turns,
                  [conversation_id |-> conversation_id, normalized_query |-> normalized,
                   conversation_context |->
                       conversation_context(conversations, conversation_id, normalized)])
           /\ conversations' =
                  IF conversation_id = NoValue THEN conversations
                  ELSE [conversations EXCEPT ![conversation_id] =
                            update_conversation(@, normalized)]
    /\ UNCHANGED <<ragRun, contextRun, normRun, lastDelete, fsmVars, ingestVars, vecVars,
                   citeVars, busVars, stageVars, svcVars>>

\* How many process calls are made on an instance that serves several tenants.
MaxTenantTurns == 3

\* QueryUnderstanding.process(query) on the one instance, the RAGQuery with its
\* tenant_id: process reads query.query, query.language and
\* query.conversation_id, and the cache is keyed by the conversation id.
ProcessOfTenant ==
    /\ Len(turns) < MaxTenantTurns
    /\ \E tenant_id \in Tenants, conversation_id \in ConversationIds \cup {NoValue},
          query \in RawQueries :
        LET normalized == normalize_query(query)
        IN /\ turns' = Append(turns,
                  [tenant_id |-> tenant_id, conversation_id |-> conversation_id,
                   normalized_query |-> normalized,
                   conversation_context |->
                       conversation_context(conversations, conversation_id, normalized)])
           /\ conversations' =
                  IF conversation_id = NoValue THEN conversations
                  ELSE [conversations EXCEPT ![conversation_id] =
                            update_conversation(@, normalized)]
    /\ UNCHANGED <<ragRun, contextRun, normRun, lastDelete, fsmVars, ingestVars, vecVars,
                   citeVars, busVars, stageVars, svcVars>>

-----------------------------------------------------------------------------
(* Deleting the vectors of a document: retrieval-service/app/qdrant_client.py *)
(* and pipeline-service/app/stages/storage.py                                 *)

NoDelete == [made |-> FALSE, collection |-> "", tenant_id |-> "", document_id |-> ""]

\* delete_document(tenant_id, document_id) of QdrantService (waqedi_vectors)
\* and of VectorStore (waqedi_knowledge): client.delete with the filter.
DeleteDocument ==
    /\ \E c \in {RetrievalCollection, KnowledgeCollection},
          tenant_id \in Tenants, document_id \in VecDocIds :
        /\ collections' = [collections EXCEPT ![c] =
              {p \in @ : ~Matches(p, delete_must(tenant_id, document_id))}]
        /\ lastDelete' = [made |-> TRUE, collection |-> c, tenant_id |-> tenant_id,
                          document_id |-> document_id]
    /\ UNCHANGED <<lastSearch, ragRun, contextRun, normRun, conversations, turns,
                   fsmVars, ingestVars, citeVars, busVars, stageVars, svcVars>>

\* Nothing of the answering path, the normalizer or the deletions has run.
RagIdle ==
    /\ ragRun = NoQuery
    /\ contextRun = NoContext
    /\ normRun = NoNorm
    /\ ConversationsEmpty
    /\ lastDelete = NoDelete

-----------------------------------------------------------------------------
(* POST /query: rag-service/app/api.py, engine.py and                        *)
(* modules/query_understanding.py                                            *)

\* How many POST /query calls are made.
MaxPosts == 2

\* QueryUnderstanding.__init__: self._conversation_cache = {}.
NewConversationCache == [k \in ConversationIds |-> <<>>]

\* query.conversation_context[-3:] under "## Previous Questions" in the user
\* prompt; the section is left out for an empty context.
previous_questions(context) == LastOf(context, 3)

NoPosts == posts = <<>>

\* The route: effective_tenant, then get_rag_engine(), which returns
\* RAGEngine(), whose __init__ takes get_query_understanding(), which returns
\* QueryUnderstanding(): the instance that serves the request is built for
\* it, and its cache goes with it when the request is answered.
PostQuery ==
    /\ Len(posts) < MaxPosts
    /\ \E tenant_id \in Tenants \cup {NoValue},
          conversation_id \in ConversationIds \cup {NoValue},
          session_id \in {"k1", NoValue}, query \in RawQueries :
        LET effective_tenant == IF tenant_id # NoValue THEN tenant_id ELSE GUEST_TENANT_ID
            conversation == IF conversation_id # NoValue THEN conversation_id ELSE session_id
            cache == NewConversationCache
            normalized == normalize_query(query)
            context == conversation_context(cache, conversation, normalized)
        IN posts' = Append(posts,
               [tenant_id |-> effective_tenant, conversation_id |-> conversation,
                normalized_query |-> normalized, conversation_context |-> context,
                previous_questions |-> previous_questions(context)])
    /\ UNCHANGED <<fsmVars, ingestVars, vecVars, citeVars, busVars, stageVars, ragVars,
                   sttVars, loopVars, authVars, prodVars, pipeVars>>

-----------------------------------------------------------------------------
(* The STT path: extraction-service services/worker.py and                   *)
(* adapters/preprocessors.py                                                 *)

\* The audio and video documents handed to ExtractionWorker._process_stt.
SttDocs == {"a1", "a2", "a3"}

\* How _process_stt can end for a document.
SttEnded == {"returned", "preprocess_failed", "transcribe_failed", "cancelled"}

\* AudioPreprocessor.preprocess: AudioSegment.from_file can raise on the
\* input, before any file is written; audio.export opens temp_dir/<id>.wav for
\* writing and can raise while it writes, the file then being on disk.
preprocess_outcomes == {"load_failed", "export_failed", "exported"}

\* The temp directory after preprocess has ended with this outcome.
preprocess(files, document_id, outcome) ==
    IF outcome = "load_failed" THEN files ELSE files \cup {document_id}

\* AudioPreprocessor.cleanup: the WAV file of the document is unlinked if it
\* exists.
cleanup(files, document_id) == files \ {document_id}

\* stt_service.transcribe returns, raises, or the task is cancelled while it
\* awaits.
transcribe_outcomes == {"returned", "transcribe_failed", "cancelled"}

SttIdle ==
    /\ sttRun = [d \in SttDocs |-> "idle"]
    /\ tempFiles = {}

\* _process_stt up to its try block: preprocess is awaited before the try,
\* so an exception of preprocess leaves _process_stt at once.
Preprocess ==
    /\ \E d \in SttDocs, outcome \in preprocess_outcomes :
        /\ sttRun[d] = "idle"
        /\ tempFiles' = preprocess(tempFiles, d, outcome)
        /\ sttRun' = [sttRun EXCEPT ![d] =
              IF outcome = "exported" THEN "transcribing" ELSE "preprocess_failed"]
    /\ UNCHANGED <<fsmVars, ingestVars, vecVars, citeVars, busVars, stageVars, ragVars,
                   routeVars, loopVars, authVars, prodVars, pipeVars>>

\* The try block of _process_stt: however transcribe ends, the finally clause
\* calls cleanup before _process_stt is left.
Transcribe ==
    /\ \E d \in SttDocs, outcome \in transcribe_outcomes :
        /\ sttRun[d] = "transcribing"
        /\ tempFiles' = cleanup(tempFiles, d)
        /\ sttRun' = [sttRun EXCEPT ![d] = outcome]
    /\ UNCHANGED <<fsmVars, ingestVars, vecVars, citeVars, busVars, stageVars, ragVars,
                   routeVars, loopVars, authVars, prodVars, pipeVars>>

-----------------------------------------------------------------------------
(* The consumer loops: run() of the extraction, chunking and retrieval       *)
(* kafka_handler.py                                                          *)

LoopIdle == caught = [s \in Stages |-> {}]

\* A plausible slip: run() has no except clause, so the exception leaves the
\* loop and the consumer task ends.
RaiseEndsLoop(s) ==
    /\ up[s] /\ cur[s].active
    /\ LET event == log[cur[s].p][cur[s].o]
           failure == {out \in Outcomes(s, event) : out.event_type \notin SuccessEvents}
       IN /\ failure # {}
          /\ \E out \in failure : \E n \in EngineCalls(s, event, out) :
                attempts' = [attempts EXCEPT ![event.document_id] = @ + n]
    /\ caught' = [caught EXCEPT ![s] = @ \cup {<<cur[s].p, cur[s].o>>}]
    /\ cur' = [cur EXCEPT ![s] = NoCur]
    /\ up' = [up EXCEPT ![s] = FALSE]
    /\ UNCHANGED <<log, pos, committed, observed, handled, extractions, restarts,
                   fsmVars, ingestVars, vecVars, citeVars, stageVars, ragVars,
                   routeVars, sttVars, authVars, prodVars, pipeVars>>

\* _handle_message raises: the send_and_wait of the failure event, in the
\* except clause, has raised. run() catches the exception, logs it and takes
\* the next message. An event the handler ignores gives it nothing to raise.
Raise(s) ==
    /\ up[s] /\ cur[s].active
    /\ LET event == log[cur[s].p][cur[s].o]
           failure == {out \in Outcomes(s, event) : out.event_type \notin SuccessEvents}
       IN /\ failure # {}
          /\ \E out \in failure : \E n \in EngineCalls(s, event, out) :
                attempts' = [attempts EXCEPT ![event.document_id] = @ + n]
    /\ caught' = [caught EXCEPT ![s] = @ \cup {<<cur[s].p, cur[s].o>>}]
    /\ cur' = [cur EXCEPT ![s] = NoCur]
    /\ UNCHANGED <<log, pos, committed, up, observed, handled, extractions, restarts,
                   fsmVars, ingestVars, vecVars, citeVars, stageVars, ragVars,
                   routeVars, sttVars, authVars, prodVars, pipeVars>>

-----------------------------------------------------------------------------
(* Refresh token rotation: auth-service api/routes/auth.py and               *)
(* adapters/repository.py                                                    *)

\* The POST /auth/refresh requests and the refresh tokens: R0 is the token a
\* login has stored, R1 and R2 are those create_refresh_token() draws for the
\* two requests (256 random bits each).
RefreshIds == {"q1", "q2"}
TokenIds == {"R0", "R1", "R2"}

create_refresh_token(q) == IF q = "q1" THEN "R1" ELSE "R2"

NoToken == [exists |-> FALSE, family_id |-> "", revoked |-> FALSE]

IdleRefresh ==
    [pc |-> "idle", token |-> NoValue, family_id |-> "", wrote |-> FALSE,
     response |-> "", cookie |-> NoValue]

\* RefreshTokenRepository.get_by_hash: the row with that hash that is not
\* revoked (and not expired; the tokens of the model are not), read from the
\* committed table.
get_by_hash(table, token) ==
    IF token \in TokenIds /\ table[token].exists /\ ~table[token].revoked
    THEN [found |-> TRUE, family_id |-> table[token].family_id]
    ELSE [found |-> FALSE, family_id |-> ""]

\* RefreshTokenRepository.revoke: UPDATE ... WHERE id = token_id sets
\* revoked_at, whatever it was.
revoke(table, token) == [table EXCEPT ![token].revoked = TRUE]

\* RefreshTokenRepository.create: a new row in the family.
create(table, token, family_id) ==
    [table EXCEPT ![token] = [exists |-> TRUE, family_id |-> family_id, revoked |-> FALSE]]

\* The table after one login: its refresh token, in a family of its own.
AuthIdle ==
    /\ refresh_tokens = [R \in TokenIds |->
          IF R = "R0" THEN [exists |-> TRUE, family_id |-> "f1", revoked |-> FALSE]
          ELSE NoToken]
    /\ refreshes = [q \in RefreshIds |-> IdleRefresh]

\* POST /auth/refresh arrives with its cookie; without one it answers 401.
StartRefresh(q) ==
    /\ refreshes[q].pc = "idle"
    /\ \E token \in TokenIds \cup {NoValue} :
        refreshes' = [refreshes EXCEPT ![q] =
            IF token = NoValue
            THEN [@ EXCEPT !.pc = "done", !.response = "401 Token Required"]
            ELSE [@ EXCEPT !.pc = "lookup", !.token = token]]
    /\ UNCHANGED <<refresh_tokens, fsmVars, ingestVars, vecVars, citeVars, busVars,
                   stageVars, ragVars, routeVars, sttVars, loopVars, prodVars, pipeVars>>

\* token_repo.get_by_hash and user_repo.get_by_id: 401 for a token that is
\* not stored, revoked, or whose user is gone or inactive.
LookupToken(q) ==
    /\ refreshes[q].pc = "lookup"
    /\ \E user_active \in BOOLEAN :
        LET stored_token == get_by_hash(refresh_tokens, refreshes[q].token)
        IN refreshes' = [refreshes EXCEPT ![q] =
              IF ~stored_token.found
              THEN [@ EXCEPT !.pc = "done", !.response = "401 Invalid Token"]
              ELSE IF ~user_active
              THEN [@ EXCEPT !.pc = "done", !.response = "401 Invalid Token"]
              ELSE [@ EXCEPT !.pc = "revoke", !.family_id = stored_token.family_id]]
    /\ UNCHANGED <<refresh_tokens, fsmVars, ingestVars, vecVars, citeVars, busVars,
                   stageVars, ragVars, routeVars, sttVars, loopVars, prodVars, pipeVars>>

\* token_repo.revoke(stored_token.id): the UPDATE waits while the open
\* transaction of another request has written the row.
RevokeToken(q) ==
    /\ refreshes[q].pc = "revoke"
    /\ \A o \in RefreshIds \ {q} : ~(refreshes[o].wrote /\ refreshes[o].token = refreshes[q].token)
    /\ refreshes' = [refreshes EXCEPT ![q] = [@ EXCEPT !.pc = "create", !.wrote = TRUE]]
    /\ UNCHANGED <<refresh_tokens, fsmVars, ingestVars, vecVars, citeVars, busVars,
                   stageVars, ragVars, routeVars, sttVars, loopVars, prodVars, pipeVars>>

\* The new tokens, token_repo.create in the family of the stored token, the
\* cookie, and the end of the session block: the transaction commits and the
\* route answers 200.
CreateAndCommit(q) ==
    /\ refreshes[q].pc = "create"
    /\ LET new_refresh_token == create_refresh_token(q)
       IN /\ refresh_tokens' = create(revoke(refresh_tokens, refreshes[q].token),
                                      new_refresh_token, refreshes[q].family_id)
          /\ refreshes' = [refreshes EXCEPT ![q] =
                [@ EXCEPT !.pc = "done", !.wrote = FALSE, !.response = "200",
                          !.cookie = new_refresh_token]]
    /\ UNCHANGED <<fsmVars, ingestVars, vecVars, citeVars, busVars,
                   stageVars, ragVars, routeVars, sttVars, loopVars, prodVars, pipeVars>>

-----------------------------------------------------------------------------
(* The lazily built Kafka producer: ingestion-service services/events.py and *)
(* the publish step of UploadService.upload                                  *)

\* The uploads that reach "Publish upload event", each a task of the event
\* loop.
CallerIds == {"u1", "u2", "u3"}

\* _producer is None, or the AIOKafkaProducer: built and start() awaited,
\* start() returned, or start() raised. _publisher is set or None.
NoProducer == [state |-> "none", publisher |-> FALSE]

IdleCaller == [pc |-> "idle", sent_on |-> "", outcome |-> ""]

\* producer.send_and_wait on a producer in this state. On a started producer
\* the broker accepts the record or the send raises; on a producer whose
\* start() has not returned, aiokafka may raise or may hold the record, and
\* nothing is sent on one whose start() has raised.
send_outcomes(state) ==
    CASE state = "started" -> {"sent", "raised"}
      [] state = "starting" -> {"sent", "raised"}
      [] OTHER -> {"raised"}

ProducerIdle ==
    /\ producer = NoProducer
    /\ callers = [c \in CallerIds |-> IdleCaller]

\* get_event_publisher up to its first await. With _publisher set it returns
\* it. Otherwise get_producer: with _producer None it builds the producer,
\* assigns the global and awaits start(); with _producer set it returns it at
\* once, and get_event_publisher builds and assigns _publisher.
GetEventPublisher(c) ==
    /\ callers[c].pc = "idle"
    /\ IF producer.publisher
       THEN /\ callers' = [callers EXCEPT ![c] = [@ EXCEPT !.pc = "publish"]]
            /\ UNCHANGED producer
       ELSE IF producer.state = "none"
       THEN /\ producer' = [producer EXCEPT !.state = "starting"]
            /\ callers' = [callers EXCEPT ![c] = [@ EXCEPT !.pc = "start"]]
       ELSE /\ producer' = [producer EXCEPT !.publisher = TRUE]
            /\ callers' = [callers EXCEPT ![c] = [@ EXCEPT !.pc = "publish"]]
    /\ UNCHANGED <<fsmVars, ingestVars, vecVars, citeVars, busVars, stageVars, ragVars,
                   routeVars, sttVars, loopVars, authVars, pipeVars>>

\* `await _producer.start()` ends for the caller that built the producer. It
\* returns: get_producer returns and _publisher is assigned. It raises: the
\* global keeps the producer, upload() logs "Failed to publish upload event".
StartEnds(c) ==
    /\ callers[c].pc = "start"
    /\ \E ok \in BOOLEAN :
        IF ok
        THEN /\ producer' = [state |-> "started", publisher |-> TRUE]
             /\ callers' = [callers EXCEPT ![c] = [@ EXCEPT !.pc = "publish"]]
        ELSE /\ producer' = [producer EXCEPT !.state = "failed"]
             /\ callers' = [callers EXCEPT ![c] =
                   [@ EXCEPT !.pc = "done", !.outcome = "raised"]]
    /\ UNCHANGED <<fsmVars, ingestVars, vecVars, citeVars, busVars, stageVars, ragVars,
                   routeVars, sttVars, loopVars, authVars, pipeVars>>

\* publisher.publish(event): send_and_wait on the producer of the publisher;
\* upload() swallows what it raises.
Publish(c) ==
    /\ callers[c].pc = "publish"
    /\ \E outcome \in send_outcomes(producer.state) :
        callers' = [callers EXCEPT ![c] =
            [pc |-> "done", sent_on |-> producer.state, outcome |-> outcome]]
    /\ UNCHANGED <<producer, fsmVars, ingestVars, vecVars, citeVars, busVars, stageVars,
                   ragVars, routeVars, sttVars, loopVars, authVars, pipeVars>>

-----------------------------------------------------------------------------
(* The pipeline service: app/pipeline.py, stages/chunking.py and             *)
(* stages/storage.py                                                         *)

\* How many Pipeline.process calls are made.
MaxRuns == 2

\* batch_size of VectorStore.store.
batch_size == 100

\* The contents processed, each the number of chunks the Chunker makes of it.
ChunkCounts == {0, 2, 101}

\* Chunker._create_chunk: chunk_id = f"chunk_{uuid4().hex[:12]}", drawn anew
\* for every chunk created; the n-th chunk the service creates gets the n-th
\* draw.
new_chunk_id(n) == "chunk_" \o ToString(n)

\* The chunks of one run: `created` chunks had been created before it.
create_chunks(created, count) ==
    [i \in 1..count |-> [chunk_id |-> new_chunk_id(created + i), text |-> "lorem ipsum",
                         language |-> "en"]]

\* The batches of `for i in range(0, len(points), batch_size)`.
Batches(count) == (count + batch_size - 1) \div batch_size

\* That loop from offset i on: each batch is upserted on its own, and the
\* upsert of batch `failing` (0: none) raises.
RECURSIVE UpsertLoop(_, _, _, _, _, _)
UpsertLoop(points, tenant_id, document_id, chunks, i, failing) ==
    IF i >= Len(chunks) THEN [points |-> points, raised |-> FALSE]
    ELSE IF failing = i \div batch_size + 1 THEN [points |-> points, raised |-> TRUE]
    ELSE UpsertLoop(
             Upsert(points, store_points(tenant_id, document_id,
                               SubSeq(chunks, i + 1, Min(i + batch_size, Len(chunks))))),
             tenant_id, document_id, chunks, i + batch_size, failing)

\* VectorStore.store: the collection it leaves, whether it raised, and the
\* number it returns.
store(points, tenant_id, document_id, chunks, failing) ==
    IF chunks = <<>> THEN [points |-> points, raised |-> FALSE, stored |-> 0]
    ELSE LET done == UpsertLoop(points, tenant_id, document_id, chunks, 0, failing)
         IN [points |-> done.points, raised |-> done.raised,
             stored |-> IF done.raised THEN 0 ELSE Len(chunks)]

\* PipelineResult, with the chunk ids the run drew and the ids of the points
\* it upserted.
PipelineResult(tenant_id, document_id, content, status, chunks_created, vectors_stored, drawn, written) ==
    [tenant_id |-> tenant_id, document_id |-> document_id, content |-> content,
     status |-> status, chunks_created |-> chunks_created,
     vectors_stored |-> vectors_stored, drawn |-> drawn, written |-> written]

\* How many chunk ids the runs so far have drawn.
RECURSIVE Drawn(_)
Drawn(runs) == IF runs = <<>> THEN 0 ELSE Head(runs).drawn + Drawn(Tail(runs))

PipelineIdle == pipeRuns = <<>>

\* Pipeline.process: extract, normalize, chunk, embed, store. An exception of
\* any stage is caught and answered with status FAILED, chunks_created = 0 and
\* vectors_stored = 0.
PipelineProcess ==
    /\ Len(pipeRuns) < MaxRuns
    /\ \E tenant_id \in Tenants, document_id \in {"d1"}, content \in ChunkCounts,
          stage_raises \in BOOLEAN :
        \E failing \in 0..Batches(content) :
            LET chunks == create_chunks(Drawn(pipeRuns), content)
                before == collections[KnowledgeCollection]
                stored == store(before, tenant_id, document_id, chunks, failing)
                written == {p.id : p \in stored.points \ before}
            IN IF stage_raises
               THEN /\ failing = 0
                    /\ pipeRuns' = Append(pipeRuns,
                          PipelineResult(tenant_id, document_id, content, "FAILED", 0, 0, 0, {}))
                    /\ UNCHANGED collections
               ELSE /\ collections' = [collections EXCEPT ![KnowledgeCollection] = stored.points]
                    /\ pipeRuns' = Append(pipeRuns,
                          IF stored.raised
                          THEN PipelineResult(tenant_id, document_id, content, "FAILED",
                                              0, 0, content, written)
                          ELSE PipelineResult(tenant_id, document_id, content, "COMPLETED",
                                              content, stored.stored, content, written))
    /\ UNCHANGED <<lastSearch, fsmVars, ingestVars, citeVars, busVars, stageVars, ragVars,
                   routeVars, sttVars, loopVars, authVars, prodVars>>

-----------------------------------------------------------------------------
\* Nothing of the service internals has run.
SvcIdle ==
    /\ NoPosts
    /\ SttIdle
    /\ LoopIdle
    /\ AuthIdle
    /\ ProducerIdle
    /\ PipelineIdle

-----------------------------------------------------------------------------
(* Specifications *)

\* The state machine alone.
FsmInit == FsmStart /\ IngestEmpty /\ VecEmpty /\ CiteIdle /\ BusEmpty /\ StageIdle /\ RagIdle /\ SvcIdle

FsmNext == TransitionCall

SpecFSM == FsmInit /\ [][FsmNext]_vars

\* The state machine and the DELETE route over a table that holds a document.
HoldNext ==
    \/ TransitionCall
    \/ StartDelete("r1")
    \/ ReadDocument("r1")
    \/ SoftDeleteStep("r1")
    \/ Commit("r1")
    \/ Return("r1")

HoldInit == FsmStart /\ IngestSeeded /\ VecEmpty /\ CiteIdle /\ BusEmpty /\ StageIdle /\ RagIdle /\ SvcIdle

SpecHold == HoldInit /\ [][HoldNext]_vars

\* The ingestion operations, two at a time, from an empty table.
IngestNext ==
    \E r \in ReqIds :
        \/ Upload(r)
        \/ StartValidate(r)
        \/ StartDelete(r)
        \/ ReadDocument(r)
        \/ ValidateStep(r)
        \/ QueueStep(r)
        \/ SoftDeleteStep(r)
        \/ Commit(r)
        \/ PublishValidated(r)
        \/ Return(r)

IngestInit == FsmIdle /\ IngestEmpty /\ VecEmpty /\ CiteIdle /\ BusEmpty /\ StageIdle /\ RagIdle /\ SvcIdle

SpecIngest == IngestInit /\ [][IngestNext]_vars

\* The vector store and the two query routes, several tenants at once.
VecNext ==
    \/ IndexChunks
    \/ StoreChunks
    \/ DeleteVectors
    \/ Search
    \/ Query

VecInit == FsmIdle /\ IngestEmpty /\ VecEmpty /\ CiteIdle /\ BusEmpty /\ StageIdle /\ RagIdle /\ SvcIdle

SpecVec == VecInit /\ [][VecNext]_vars

\* Indexing with ids chosen by the caller.
IdsNext ==
    \/ IndexRequest
    \/ StoreRequest

SpecIds == VecInit /\ [][IdsNext]_vars

\* Citation extraction over the answers and context windows.
CiteNext == ExtractCitations

CiteInit == FsmIdle /\ IngestEmpty /\ VecEmpty /\ CiteStart /\ BusEmpty /\ StageIdle /\ RagIdle /\ SvcIdle

SpecCite == CiteInit /\ [][CiteNext]_vars

\* The topic and the stage consumers, no process failing.
BusNext ==
    \/ PublishUploaded
    \/ \E s \in Stages :
        \/ Poll(s)
        \/ AutoCommit(s)
        \/ Finish(s)

BusInit == FsmIdle /\ IngestEmpty /\ VecEmpty /\ CiteIdle /\ BusEmpty /\ StageIdle /\ RagIdle /\ SvcIdle

SpecBus == BusInit /\ [][BusNext]_vars

\* The extraction consumer alone, its process crashing, being stopped and
\* starting again.
BusCrashNext ==
    \/ PublishUploaded
    \/ \E s \in {"extraction"} :
        \/ Poll(s)
        \/ AutoCommit(s)
        \/ Finish(s)
        \/ Crash(s)
        \/ Stop(s)
        \/ Start(s)

SpecBusCrash == BusInit /\ [][BusCrashNext]_vars

\* The topic and the stage consumers when no dependency fails. Each consumer
\* is a task of its own service: it keeps polling and its handler returns.
PipelineNext ==
    \/ PublishUploaded
    \/ \E s \in Stages :
        \/ Poll(s)
        \/ AutoCommit(s)
        \/ FinishUnfailed(s)

SpecPipeline ==
    /\ BusInit
    /\ [][PipelineNext]_vars
    /\ \A s \in Stages : WF_vars(Poll(s)) /\ WF_vars(FinishUnfailed(s))

\* The chunkers called directly and through the chunking consumer.
ChunkNext ==
    \/ ChunkDocument
    \/ PipelineChunk
    \/ HandleExtracted

ChunkInit == FsmIdle /\ IngestEmpty /\ VecEmpty /\ CiteIdle /\ BusEmpty /\ ChunkStart /\ RagIdle /\ SvcIdle

SpecChunk == ChunkInit /\ [][ChunkNext]_vars

\* The chunking and retrieval handlers, events delivered once or again.
RedeliverNext ==
    \/ HandleExtracted
    \/ HandleChunked

RedeliverInit == FsmIdle /\ IngestEmpty /\ VecEmpty /\ CiteIdle /\ BusEmpty /\ StageIdle /\ RagIdle /\ SvcIdle

SpecRedeliver == RedeliverInit /\ [][RedeliverNext]_vars

\* The context assembler over the lists retrieval can return.
ContextNext == Assemble

ContextInit ==
    /\ FsmIdle /\ IngestEmpty /\ VecEmpty /\ CiteIdle /\ BusEmpty /\ StageIdle
    /\ ragRun = NoQuery /\ ContextStart /\ normRun = NoNorm
    /\ ConversationsEmpty /\ lastDelete = NoDelete /\ SvcIdle

SpecContext == ContextInit /\ [][ContextNext]_vars

\* RAGEngine.query over the retrieved lists and the LLM's outcomes.
AnswerNext == EngineQuery

AnswerInit ==
    /\ FsmIdle /\ IngestEmpty /\ VecEmpty /\ CiteIdle /\ BusEmpty /\ StageIdle
    /\ AnswerStart /\ contextRun = NoContext /\ normRun = NoNorm
    /\ ConversationsEmpty /\ lastDelete = NoDelete /\ SvcIdle

SpecAnswer == AnswerInit /\ [][AnswerNext]_vars

\* The normalizer applied to a text and to its own output.
NormNext == Normalize

NormInit ==
    /\ FsmIdle /\ IngestEmpty /\ VecEmpty /\ CiteIdle /\ BusEmpty /\ StageIdle
    /\ ragRun = NoQuery /\ contextRun = NoContext /\ NormStart
    /\ ConversationsEmpty /\ lastDelete = NoDelete /\ SvcIdle

SpecNorm == NormInit /\ [][NormNext]_vars

\* One QueryUnderstanding instance serving queries of several conversations.
ConversationNext == Process

SpecConversation == VecInit /\ [][ConversationNext]_vars

\* Both vector collections, documents indexed, stored and deleted.
DeleteNext ==
    \/ IndexChunks
    \/ StoreChunks
    \/ DeleteDocument

SpecDelete == VecInit /\ [][DeleteNext]_vars

\* The indexing consumer and the queries of the answering path.
RetrievableNext ==
    \/ HandleChunked
    \/ Query

SpecRetrievable == RedeliverInit /\ [][RetrievableNext]_vars

\* POST /query calls, one after the other.
QueryRouteNext == PostQuery

SpecQueryRoute == VecInit /\ [][QueryRouteNext]_vars

\* One QueryUnderstanding instance serving the queries of several tenants.
TenantsNext == ProcessOfTenant

SpecTenants == VecInit /\ [][TenantsNext]_vars

\* The STT path of the extraction worker, several documents at once.
SttNext ==
    \/ Preprocess
    \/ Transcribe

SpecStt == VecInit /\ [][SttNext]_vars

\* The topic and the stage consumers, handlers raising into run(). Each
\* consumer is a task of its own service: it keeps polling, and a handler
\* returns or raises.
\* run() is the same text in the three handlers; the loop followed is that of
\* the extraction consumer, which the uploads reach first.
LoopStages == {"extraction"}

LoopNext ==
    \/ PublishUploadedOf(LoopDocs)
    \/ \E s \in LoopStages :
        \/ Poll(s)
        \/ AutoCommit(s)
        \/ Finish(s)
        \/ Raise(s)

SpecLoop ==
    /\ BusInit
    /\ [][LoopNext]_vars
    /\ \A s \in LoopStages : WF_vars(Poll(s)) /\ WF_vars(Finish(s) \/ Raise(s))

\* POST /auth/refresh, two requests at a time.
RefreshNext ==
    \E q \in RefreshIds :
        \/ StartRefresh(q)
        \/ LookupToken(q)
        \/ RevokeToken(q)
        \/ CreateAndCommit(q)

SpecRefresh == VecInit /\ [][RefreshNext]_vars

\* Uploads reaching the publish step while the producer is not built yet.
ProducerNext ==
    \E c \in CallerIds :
        \/ GetEventPublisher(c)
        \/ StartEnds(c)
        \/ Publish(c)

SpecProducer == VecInit /\ [][ProducerNext]_vars

\* Pipeline.process, one run after the other.
PipelineRunNext == PipelineProcess

SpecPipelineRun == VecInit /\ [][PipelineRunNext]_vars


-----------------------------------------------------------------------------
(* Claims on the state machine *)

\* The timestamp field that a transition to status s sets, "" when none.
StampedField(s) ==
    CASE s = "VALIDATED" -> "validated_at"
      [] s = "PROCESSED" -> "processed_at"
      [] s = "ARCHIVED"  -> "archived_at"
      [] s = "DELETED"   -> "deleted_at"
      [] OTHER           -> ""

\* C1: a transition_to whose (from, to) is not in ALLOWED_TRANSITIONS raises
\* IllegalStateTransition and leaves the status and every timestamp unchanged.
C1_IllegalTransitionFails ==
    (call.made /\ call.to \notin ALLOWED_TRANSITIONS[call.from])
        => (call.raised = "IllegalStateTransition" /\ doc = call.before)

\* A transition out of the terminal status DELETED was refused and changed
\* nothing.
C1_Witness ==
    /\ call.made
    /\ call.raised = "IllegalStateTransition"
    /\ call.from = "DELETED"
    /\ call.to = "UPLOADED"
    /\ doc = call.before

\* What a successful transition leaves: the new status, the matching timestamp
\* set to the time of the call, every other field as before.
TransitionApplied ==
    /\ call.raised = "none"
    /\ doc.status = call.to
    /\ doc.legal_hold = call.before.legal_hold
    /\ \A f \in TimestampFields :
        doc[f] = IF f = StampedField(call.to) THEN call.now ELSE call.before[f]

\* C2 as stated: every transition in ALLOWED_TRANSITIONS succeeds, sets the
\* status and updates the matching timestamp.
C2_AllowedTransitionSucceeds ==
    (call.made /\ call.to \in ALLOWED_TRANSITIONS[call.from]) => TransitionApplied

\* C2 as amended: every transition in ALLOWED_TRANSITIONS succeeds, sets the
\* status and updates the matching timestamp, except a transition to DELETED
\* of a document under legal hold, which raises LegalHoldViolation and leaves
\* the document unchanged.
C2_AllowedTransitionSucceedsUnlessHeld ==
    (call.made /\ call.to \in ALLOWED_TRANSITIONS[call.from])
        => IF call.to = "DELETED" /\ call.before.legal_hold
           THEN call.raised = "LegalHoldViolation" /\ doc = call.before
           ELSE TransitionApplied

\* An allowed transition that stamped its timestamp: PROCESSED -> ARCHIVED.
C2_Witness ==
    /\ call.made
    /\ call.from = "PROCESSED"
    /\ call.to = "ARCHIVED"
    /\ call.raised = "none"
    /\ doc.archived_at = call.now
    /\ doc.archived_at # call.before.archived_at

\* C3: a document under legal hold never reaches DELETED: transition_to(DELETED)
\* fails from every status and changes nothing, no stored row under hold is
\* soft-deleted, and DELETE on a document under hold answers 409 legal-hold
\* without writing.
C3_LegalHoldNeverDeleted ==
    /\ doc.legal_hold => doc.status # "DELETED"
    /\ (call.made /\ call.to = "DELETED" /\ call.before.legal_hold)
           => (call.raised # "none" /\ doc = call.before)
    /\ \A d \in DocIds :
           (rows[d].exists /\ rows[d].d.legal_hold)
               => (rows[d].d.status # "DELETED" /\ rows[d].d.deleted_at = NoTime)
    /\ \A r \in ReqIds :
           (reqs[r].op = "delete" /\ reqs[r].found /\ reqs[r].document.legal_hold)
               => /\ reqs[r].pc = "done"
                  /\ reqs[r].response = "409 urn:waqedi:error:legal-hold"
                  /\ ~reqs[r].wrote

\* E5 and the state machine's side of it: DELETE on a PROCESSED document under
\* hold was answered 409 and the row is still PROCESSED, and a held PROCESSED
\* entity refused transition_to(DELETED).
C3_Witness ==
    /\ call.made /\ call.to = "DELETED" /\ call.from = "PROCESSED"
    /\ call.before.legal_hold
    /\ call.raised = "LegalHoldViolation"
    /\ \E r \in ReqIds :
        /\ reqs[r].op = "delete"
        /\ reqs[r].response = "409 urn:waqedi:error:legal-hold"
        /\ rows[reqs[r].doc_id].d.status = "PROCESSED"
        /\ rows[reqs[r].doc_id].d.legal_hold

\* C4: every status an ingestion operation writes to a stored document is
\* reached by a transition of ALLOWED_TRANSITIONS from the status it replaces;
\* so DELETE writes DELETED only over PROCESSED or ARCHIVED.
C4_StatusWritesFollowStateMachine ==
    lastWrite.made => lastWrite.to \in ALLOWED_TRANSITIONS[lastWrite.from]

-----------------------------------------------------------------------------
(* Claims on the vector store and the query routes *)

\* C5: every hit of a search or retrieval issued for tenant T has payload
\* tenant_id = T, and every citation of an answer produced for T is built from
\* a retrieved point of T whose id no other tenant's point carries, even when
\* tenants hold the same chunk ids, document ids and texts.
C5_TenantIsolation ==
    lastSearch.made =>
        /\ \A h \in lastSearch.hits : h.tenant_id = lastSearch.tenant
        /\ \A i \in 1..Len(lastSearch.citations) :
            /\ \E h \in lastSearch.hits :
                /\ h.id = lastSearch.citations[i].point
                /\ h.tenant_id = lastSearch.tenant
            /\ \A c \in DOMAIN collections : \A p \in collections[c] :
                p.tenant_id # lastSearch.tenant => p.id # lastSearch.citations[i].point

\* An answer for t1 cites two chunks while t2 holds chunks of the same chunk id,
\* document id and text in the same collection.
C5_Witness ==
    /\ lastSearch.made
    /\ lastSearch.op = "query"
    /\ lastSearch.tenant = "t1"
    /\ Len(lastSearch.citations) = 2
    /\ \A i \in 1..2 :
        \E p \in collections[RagCollection] :
            /\ p.tenant_id = "t2"
            /\ p.chunk_id = lastSearch.citations[i].chunk_id
            /\ p.document_id = lastSearch.citations[i].document_id
            /\ p.text = lastSearch.citations[i].text_excerpt

\* C6: the tenant whose data a request reads is the tenant of the caller's
\* token claims, whatever tenant_id the request body carries.
C6_ClaimsTenantIsAccessed ==
    lastSearch.made => lastSearch.tenant = lastSearch.claims

-----------------------------------------------------------------------------
(* Claims on citation extraction *)

\* The [...] tokens of a text, as <<position of "[", position of "]">>: a "["
\* that no earlier "[" reaches without crossing a "]", then at least one
\* character other than "]", then "]".
BracketTokens(s) ==
    {t \in (1..Len(s)) \X (1..Len(s)) :
        /\ s[t[1]] = "[" /\ s[t[2]] = "]"
        /\ t[2] >= t[1] + 2
        /\ \A k \in t[1]..(t[2] - 1) : s[k] # "]"
        /\ \A k \in 1..(t[1] - 1) :
              s[k] = "[" => \E j \in (k + 1)..(t[1] - 1) : s[j] = "]"}

\* The content x of a token names chunk id c: x is c between blanks.
Names(x, c) ==
    \E i \in 1..Len(x) :
        /\ SubSeq(x, i, i + Len(c) - 1) = c
        /\ \A k \in 1..Len(x) : (k < i \/ k > i + Len(c) - 1) => x[k] = " "

\* The positions at which a marker of chunk id c stands in the answer.
MarkerPositions(c) ==
    {t[1] : t \in {u \in BracketTokens(answer) :
                      Names(SubSeq(answer, u[1] + 1, u[2] - 1), c)}}

\* C7: every citation's chunk_id is a chunk id of the context window, no two
\* citations share a chunk_id, every cited chunk has a marker in the answer,
\* and the citations stand in the order in which their first markers appear.
C7_CitationsWellFormed ==
    extracted =>
        /\ \A i \in 1..Len(citations) :
            /\ \E j \in 1..Len(window) : window[j].chunk_id = citations[i].chunk_id
            /\ MarkerPositions(citations[i].chunk_id) # {}
        /\ \A i, j \in 1..Len(citations) :
            i < j =>
                /\ citations[i].chunk_id # citations[j].chunk_id
                /\ \E p \in MarkerPositions(citations[i].chunk_id) :
                      \A q \in MarkerPositions(citations[j].chunk_id) : p < q

\* "[b][a][b]" over a window that holds a and b: b is cited first and once.
C7_Witness ==
    /\ extracted
    /\ answer = <<"[", "b", "]", "[", "a", "]", "[", "b", "]">>
    /\ Len(window) = 2
    /\ Len(citations) = 2
    /\ citations[1].chunk_id = <<"b">>
    /\ citations[2].chunk_id = <<"a">>

-----------------------------------------------------------------------------
(* Claims on the topic and the stage consumers *)

\* C8: the pipeline events of a document that a consumer of the topic is
\* delivered form a prefix of uploaded, extracted, chunked, indexed.
C8_EventsInStageOrder ==
    \A s \in Stages :
        /\ Len(observed[s]) <= Len(PipelineEvents)
        /\ \A i \in 1..Len(observed[s]) : observed[s][i] = PipelineEvents[i]

\* C9: an offset is committed only for events whose handler has returned,
\* that is after their success or failure event was sent.
C9_CommitAfterOutcome ==
    \A s \in Stages, p \in Partitions :
        \A o \in 1..committed[s][p] : <<p, o>> \in handled[s]

\* C10: whatever is delivered again, the OCR/STT engine runs to completion at
\* most once for a document.
C10_ExtractedOnce ==
    \A d \in BusDocs : extractions[d] <= 1

-----------------------------------------------------------------------------
(* Claims on upload *)

UploadReturned(r) == reqs[r].op = "upload" /\ reqs[r].response = "201"

UploadedEventsOf(d) ==
    {i \in DOMAIN outbox : /\ outbox[i].event_type = "document.uploaded"
                           /\ outbox[i].payload.document_id = d}

\* C15: an upload that returned a Document has stored the blob, committed the
\* row and published exactly one document.uploaded event for the document.
C15_ReturnedUploadPublishedOnce ==
    \A r \in ReqIds :
        UploadReturned(r) =>
            LET d == reqs[r].doc_id
            IN /\ rows[d].exists
               /\ rows[d].storage_key \in blobs
               /\ rows[d].d.uploaded_at # NoTime
               /\ Cardinality(UploadedEventsOf(d)) = 1

\* C16: every document.uploaded event carries storage_bucket and storage_key,
\* the key being the one stored on the document row.
C16_UploadedEventNamesBlob ==
    \A i \in DOMAIN outbox :
        outbox[i].event_type = "document.uploaded" =>
            LET payload == outbox[i].payload
            IN /\ "storage_bucket" \in DOMAIN payload
               /\ "storage_key" \in DOMAIN payload
               /\ payload.storage_key = rows[payload.document_id].storage_key

\* The allowed content types and their limits in bytes, as documented.
DocumentedLimit(content_type) ==
    CASE content_type = "application/pdf" -> 104857600
      [] content_type \in {"image/png", "image/jpeg"} -> 52428800
      [] content_type \in {"audio/mpeg", "audio/wav"} -> 524288000

DocumentedTypes ==
    {"application/pdf", "image/png", "image/jpeg", "audio/mpeg", "audio/wav", "video/mp4"}

UploadStep(r) == reqs[r].pc = "idle" /\ reqs'[r].op = "upload"

\* C17: an upload of a content type outside the allowed set answers 415
\* (UNSUPPORTED_MEDIA_TYPE) and one over the limit of its type answers 413
\* (FILE_TOO_LARGE); either leaves blobs, rows and published events as they
\* were.
C17_RejectedUploadWritesNothing ==
    [][\A r \in ReqIds :
          UploadStep(r) =>
              LET q == reqs'[r]
              IN /\ q.content_type \notin DocumentedTypes =>
                        /\ q.response = "415 urn:waqedi:error:unsupported-media-type"
                        /\ UNCHANGED <<blobs, rows, outbox>>
                 /\ (/\ q.content_type \in DocumentedTypes
                     /\ q.size_bytes > DocumentedLimit(q.content_type)) =>
                        /\ q.response = "413 urn:waqedi:error:file-too-large"
                        /\ UNCHANGED <<blobs, rows, outbox>>]_vars

\* One upload was refused for its type and another for its size.
C17_Witness ==
    /\ reqs["r1"].op = "upload" /\ reqs["r1"].content_type = "text/plain"
    /\ reqs["r1"].response = "415 urn:waqedi:error:unsupported-media-type"
    /\ reqs["r2"].op = "upload" /\ reqs["r2"].content_type = "image/png"
    /\ reqs["r2"].size_bytes = 52428801
    /\ reqs["r2"].response = "413 urn:waqedi:error:file-too-large"

-----------------------------------------------------------------------------
(* Claims on the outcomes of the stages *)

Emitted(event_type, d) ==
    \E p \in Partitions : \E i \in 1..Len(log[p]) :
        log[p][i].event_type = event_type /\ log[p][i].document_id = d

\* C12: the extraction stage gives up on a document, emitting
\* document.extraction_failed after an engine failure, only when max_attempts
\* (3) engine attempts have been made for it.
C12_FailsAfterThreeAttempts ==
    \A d \in BusDocs :
        (Emitted("document.extraction_failed", d) /\ attempts[d] > extractions[d])
            => attempts[d] >= max_attempts

StageInput(s) ==
    CASE s = "extraction" -> "document.uploaded"
      [] s = "chunking"   -> "document.extracted"
      [] s = "retrieval"  -> "document.chunked"

StageOutcomes(s) ==
    CASE s = "extraction" -> {"document.extracted", "document.extraction_failed"}
      [] s = "chunking"   -> {"document.chunked", "document.chunking_failed"}
      [] s = "retrieval"  -> {"document.indexed", "document.indexing_failed"}

\* The handler of stage s returns in this step.
Returns(s) == cur[s].active /\ ~cur'[s].active /\ up'[s]

\* C13: a handler that returns from an input event of its stage, empty text
\* or empty chunk list included, has emitted exactly one event, the success or
\* the failure event of the stage.
C13_OneOutcomePerInput ==
    [][\A s \in Stages :
          (Returns(s) /\ log[cur[s].p][cur[s].o].event_type = StageInput(s)) =>
              \E p \in Partitions :
                  /\ Len(log'[p]) = Len(log[p]) + 1
                  /\ log'[p][Len(log'[p])].event_type \in StageOutcomes(s)
                  /\ log'[p][Len(log'[p])].document_id = log[cur[s].p][cur[s].o].document_id
                  /\ \A q \in Partitions \ {p} : log'[q] = log[q]]_vars

\* C14: with no dependency failing and the consumers scheduled fairly, an
\* uploaded document's extracted, chunked and indexed events all follow.
C14_UploadedLeadsToIndexed ==
    \A d \in BusDocs :
        Emitted("document.uploaded", d) ~>
            (/\ Emitted("document.extracted", d)
             /\ Emitted("document.chunked", d)
             /\ Emitted("document.indexed", d))

-----------------------------------------------------------------------------
(* Claims on redelivery and on the chunkers *)

\* The points of the document of an event in a snapshot of the collection.
PointsOf(points, event) ==
    {pt \in points : pt.tenant_id = event.tenant_id /\ pt.document_id = event.document_id}

ChunkIdsOf(event) == [i \in 1..Len(event.chunks) |-> event.chunks[i].chunk_id]

\* C11: a document.chunked event handled again leaves the same points of its
\* document stored and reports the same vectors_indexed; a document.extracted
\* event with text handled again emits document.chunked, both times, with the
\* same chunk ids.
C11_RedeliveryIsIdempotent ==
    \A i, j \in 1..Len(deliveries) :
        (/\ i < j
         /\ deliveries[i].stage = deliveries[j].stage
         /\ deliveries[i].event = deliveries[j].event) =>
            LET first == deliveries[i]
                again == deliveries[j]
            IN IF first.stage = "retrieval"
               THEN (/\ first.out.event_type = "document.indexed"
                     /\ again.out.event_type = "document.indexed") =>
                        /\ again.out.count = first.out.count
                        /\ PointsOf(again.points, again.event)
                              = PointsOf(first.points, first.event)
               ELSE first.event.text # <<>> =>
                        /\ first.out.event_type = "document.chunked"
                        /\ again.out.event_type = "document.chunked"
                        /\ ChunkIdsOf(again.out) = ChunkIdsOf(first.out)

\* C18: the chunk_index values of one chunking run (POST /chunk over all its
\* segments, the pipeline Chunker, the chunks of a document.chunked event of
\* the chunking consumer) are 0, 1, ..., N-1 in emission order.
C18_ChunkIndexesContiguous ==
    /\ \A i \in 1..Len(chunkRun.chunks) : chunkRun.chunks[i].chunk_index = i - 1
    /\ \A k \in 1..Len(deliveries) :
          deliveries[k].out.event_type = "document.chunked" =>
              \A i \in 1..Len(deliveries[k].out.chunks) :
                  deliveries[k].out.chunks[i].index = i - 1

\* The pipeline Chunker has split a paragraph into sentences and has gone on
\* to the next paragraph: three chunks.
C18_Witness ==
    /\ chunkRun.via = "Chunker.chunk"
    /\ chunkRun.text = <<<<2400, 2400>>, <<2400>>>>
    /\ Len(chunkRun.chunks) = 3
    /\ chunkRun.chunks[3].chunk_index = 2

\* C19: chunking a non-empty text yields at least one chunk, and a text
\* shorter than min_size yields exactly one chunk, the whole text.
C19_NonEmptyTextYieldsChunks ==
    (chunkRun.via # "none" /\ TextLen(chunkRun.text) > 0) =>
        /\ chunkRun.chunks # <<>>
        /\ TextLen(chunkRun.text) < min_chunk_size =>
              chunkRun.chunks = <<create_chunk(chunkRun.text, 0)>>

-----------------------------------------------------------------------------
(* Claims on point ids *)

\* C20: the point ids of two distinct (tenant_id, chunk_id) pairs differ, so
\* a point that an upsert replaces is a point of the same tenant and chunk.
C20_UpsertKeepsOtherChunks ==
    [][\A c \in {RetrievalCollection, KnowledgeCollection} :
          \A old \in collections[c] : \A new \in collections'[c] :
              old.id = new.id =>
                  old.tenant_id = new.tenant_id /\ old.chunk_id = new.chunk_id]_vars

-----------------------------------------------------------------------------
(* Claims on the answering path *)

C22_ConfidenceOfGeneratedAnswer ==
    (ragRun.done /\ ragRun.response.reason = "generated") =>
        LET cited == Len(ragRun.response.citations)
            of == Len(ragRun.context)
            confidence == ragRun.response.confidence
            exact == Min(20 * of + 80 * cited, 95 * of)
        IN IF is_refusal(ragRun.response.answer) THEN confidence = 90
           ELSE IF cited = 0 THEN confidence = 30
           ELSE /\ 2 * (confidence * of - exact) <= of
                /\ 2 * (exact - confidence * of) <= of

\* C23: when the LLM call fails with a transport error, generate returns
\* without raising a fallback answer in the language of the query, with no
\* citation and confidence 0.0.
C23_TransportErrorFallback ==
    (ragRun.done /\ ragRun.llm.kind = "http_error") =>
        /\ ~ragRun.response.raised
        /\ ragRun.response.answer # <<>>
        /\ LanguageOfText(ragRun.response.answer) = ragRun.language
        /\ ragRun.response.citations = <<>>
        /\ ragRun.response.confidence = 0

\* C24: the window of assemble holds at most min(top_k, max_chunks_per_query)
\* chunks, and its total estimated token count, the sum over its chunks, is at
\* most max_context_tokens.
C24_WindowWithinLimits ==
    contextRun.done =>
        /\ Len(contextRun.chunks) <= Min(contextRun.top_k, max_chunks_per_query)
        /\ contextRun.total_tokens <= max_context_tokens
        /\ contextRun.total_tokens
              = SumSeq([i \in 1..Len(contextRun.chunks) |->
                           estimate_context_tokens(contextRun.chunks[i].text)])

\* A ranked chunk was left out of the window because it did not fit the
\* budget, with room left under the cap on the number of chunks.
C24_Witness ==
    /\ contextRun.done
    /\ Len(contextRun.chunks) >= 1
    /\ Len(contextRun.chunks) < Min(contextRun.top_k, max_chunks_per_query)
    /\ \E i \in 1..Len(contextRun.ranked) :
          /\ \A j \in 1..Len(contextRun.chunks) :
                contextRun.chunks[j].chunk_id # contextRun.ranked[i].chunk_id
          /\ contextRun.total_tokens + estimate_context_tokens(contextRun.ranked[i].text)
                > max_context_tokens

\* C29: the chunks of the window are a prefix of the list ranked by
\* final_score descending: no chunk is selected after a chunk ranked above it
\* was left out.
C29_WindowIsPrefixOfRanking ==
    contextRun.done =>
        /\ \A i \in 1..(Len(contextRun.ranked) - 1) :
              contextRun.ranked[i].final_score >= contextRun.ranked[i + 1].final_score
        /\ Len(contextRun.chunks) <= Len(contextRun.ranked)
        /\ contextRun.chunks = SubSeq(contextRun.ranked, 1, Len(contextRun.chunks))

\* The normalized queries of the turns before turn i under its conversation id.
EarlierTurns(i) ==
    LET same == SelectSeq(SubSeq(turns, 1, i - 1),
                          LAMBDA t : t.conversation_id = turns[i].conversation_id)
    IN [j \in 1..Len(same) |-> same[j].normalized_query]

\* C30: the conversation_context process returns for a query holds only turns
\* submitted before it under the same conversation id, the last ones and at
\* most max_history of them, never the query itself; the history of the cache
\* never holds more than max_history turns.
C30_ContextHoldsEarlierTurnsOnly ==
    /\ \A k \in ConversationIds : Len(conversations[k]) <= max_conversation_history
    /\ \A i \in 1..Len(turns) :
          LET context == turns[i].conversation_context
          IN /\ Len(context) <= max_conversation_history
             /\ IF turns[i].conversation_id = NoValue THEN context = <<>>
                ELSE /\ Len(context) <= Len(EarlierTurns(i))
                     /\ context = LastOf(EarlierTurns(i), Len(context))

-----------------------------------------------------------------------------
(* Claims on normalization *)

\* C25: normalizing a normalized text changes nothing:
\* normalize(normalize(T, L), L) = normalize(T, L) for every text and language.
C25_NormalizeIsIdempotent ==
    Len(normRun.outputs) = 2 => normRun.outputs[2] = normRun.outputs[1]

-----------------------------------------------------------------------------
(* Claims on the stages and the vector collections *)

\* C26: with the default configuration the chunking consumer resolves the
\* strategy to a member of ChunkingStrategy and, for a document.extracted
\* event with text, emits document.chunked and not document.chunking_failed.
C26_DefaultStrategyChunks ==
    \A i \in 1..Len(deliveries) :
        (deliveries[i].stage = "chunking" /\ deliveries[i].event.text # <<>>) =>
            /\ deliveries[i].out.event_type = "document.chunked"
            /\ deliveries[i].out.count >= 1

\* C27: the answering path retrieves from the collection into which the
\* document.chunked consumer upserts: every chunk counted in a
\* document.indexed event is among the points a query of the same tenant can
\* be answered from.
C27_IndexedChunksAreRetrievable ==
    \A i \in 1..Len(deliveries) :
        deliveries[i].out.event_type = "document.indexed" =>
            LET event == deliveries[i].event
            IN \A k \in 1..Len(event.chunks) :
                  \E p \in collections[RagCollection] :
                      /\ Matches(p, retrieve_must(event.tenant_id, NoValue, event.document_id))
                      /\ p.chunk_id = event.chunks[k].chunk_id

\* C28: delete_document(T, D) removes from its collection exactly the points
\* whose payload has tenant_id = T and document_id = D; every other point of
\* that collection and the other collection are left as they were.
C28_DeleteRemovesOnlyTheDocument ==
    [][(\/ lastDelete' # lastDelete
        \/ \E c \in DOMAIN collections :
              collections'[c] # collections[c] /\ collections'[c] \subseteq collections[c])
       => \A c \in DOMAIN collections :
              collections'[c] =
                  IF c = lastDelete'.collection
                  THEN {p \in collections[c] :
                          ~(/\ p.tenant_id = lastDelete'.tenant_id
                            /\ p.document_id = lastDelete'.document_id)}
                  ELSE collections[c]]_vars

\* A document of one tenant was deleted from a collection that still holds
\* the points of the same document id of another tenant.
C28_Witness ==
    /\ lastDelete.made
    /\ ~\E p \in collections[lastDelete.collection] :
          p.tenant_id = lastDelete.tenant_id /\ p.document_id = lastDelete.document_id
    /\ \E p \in collections[lastDelete.collection] :
          p.tenant_id # lastDelete.tenant_id /\ p.document_id = lastDelete.document_id
    /\ \E p \in collections[lastDelete.collection] :
          p.tenant_id = lastDelete.tenant_id /\ p.document_id # lastDelete.document_id

-----------------------------------------------------------------------------
(* Claims on the query route and the conversation history *)

\* C31: of two successive POST /query calls with the same conversation_id, the
\* second has the normalized question of the first in its conversation context
\* and among the previous questions of its prompt.
C31_SecondCallSeesFirstQuestion ==
    \A j \in 2..Len(posts) :
        (/\ posts[j].conversation_id # NoValue
         /\ posts[j - 1].conversation_id = posts[j].conversation_id
         /\ posts[j - 1].tenant_id = posts[j].tenant_id) =>
            /\ \E n \in 1..Len(posts[j].conversation_context) :
                  posts[j].conversation_context[n] = posts[j - 1].normalized_query
            /\ \E n \in 1..Len(posts[j].previous_questions) :
                  posts[j].previous_questions[n] = posts[j - 1].normalized_query

-----------------------------------------------------------------------------
(* Claims on the STT path *)

\* C32: once the extraction of a document on the STT path has ended, however
\* it ended, no WAV file of the document is left in the temp directory.
C32_NoTempFileAfterExtraction ==
    \A d \in SttDocs : sttRun[d] \in SttEnded => d \notin tempFiles

-----------------------------------------------------------------------------
(* Claims on the consumer loops *)

\* C33: a handler that raises, the failed publish of the failure event
\* included, does not end the consumer loop, and under fair scheduling every
\* event on a partition is handled in the end: each consumer is, again and
\* again, idle with nothing left to fetch.
C33_LoopSurvivesExceptions ==
    /\ [](\A s \in LoopStages : up[s])
    /\ \A s \in LoopStages : \A p \in Partitions :
          []<>(~cur[s].active /\ pos[s][p] = Len(log[p]))

\* A handler has raised on an event and a later event of the same partition
\* has been handled by the same consumer.
C33_Witness ==
    \E s \in Stages : \E e \in caught[s] : \E l \in handled[s] \cup caught[s] :
        /\ e[1] = l[1]
        /\ e[2] < l[2]
        /\ Outcomes(s, log[l[1]][l[2]]) # {}

-----------------------------------------------------------------------------
(* Claims on refresh token rotation *)

\* The requests that redeemed a token, and the tokens of a family that are
\* stored and not revoked.
Redeemed(R) == {q \in RefreshIds : refreshes[q].response = "200" /\ refreshes[q].token = R}

Unrevoked(family_id) ==
    {R \in TokenIds : /\ refresh_tokens[R].exists
                      /\ refresh_tokens[R].family_id = family_id
                      /\ ~refresh_tokens[R].revoked}

\* C34: a refresh token is redeemed by at most one POST /auth/refresh, requests
\* running at the same time included, and a token family holds at most one
\* refresh token that is not revoked.
C34_RefreshTokenRedeemedOnce ==
    /\ \A R \in TokenIds : Cardinality(Redeemed(R)) <= 1
    /\ Cardinality(Unrevoked("f1")) <= 1

-----------------------------------------------------------------------------
(* Claims on validate_and_queue and on the event publisher *)

ValidatedEventsOf(d) ==
    {i \in 1..Len(outbox) : /\ outbox[i].event_type = "document.validated"
                            /\ outbox[i].document_id = d}

\* C35: document.validated is published at most once per document, calls of
\* validate_and_queue running at the same time included, and a call never
\* writes over a stored status other than UPLOADED (or the VALIDATED it wrote
\* itself).
C35_OneValidationPerDocument ==
    /\ \A d \in DocIds : Cardinality(ValidatedEventsOf(d)) <= 1
    /\ (lastWrite.made /\ lastWrite.op = "validate") =>
           \/ lastWrite.from = "UPLOADED" /\ lastWrite.to = "VALIDATED"
           \/ lastWrite.from = "VALIDATED" /\ lastWrite.to = "QUEUED"

\* C36: a caller holds a publisher only when start() of its producer has
\* returned, and no publish was attempted on a producer in another state.
C36_PublishOnlyOnStartedProducer ==
    \A c \in CallerIds :
        /\ callers[c].pc = "publish" => producer.state = "started"
        /\ callers[c].sent_on \in {"", "started"}

-----------------------------------------------------------------------------
(* Claims on the failures of the vector store *)

\* C37: RAGEngine.query gives the zero-hit response only when the search of
\* the vector store returned, with no chunk.
C37_ZeroHitOnlyAfterSearchReturned ==
    (ragRun.done /\ ragRun.response.reason = "no_chunks_found") =>
        /\ ragRun.search = "returned"
        /\ ragRun.retrieved = <<>>

\* C38: a run of Pipeline.process that returned FAILED has left none of the
\* points it upserted in the collection.
C38_FailedRunLeavesNoPoints ==
    \A i \in 1..Len(pipeRuns) :
        pipeRuns[i].status = "FAILED" =>
            /\ pipeRuns[i].vectors_stored = 0
            /\ \A p \in collections[KnowledgeCollection] : p.id \notin pipeRuns[i].written

\* The points of a document of a tenant in the collection of the pipeline.
StoredPointsOf(tenant_id, document_id) ==
    {p \in collections[KnowledgeCollection] :
        p.tenant_id = tenant_id /\ p.document_id = document_id}

\* C39: after two completed runs of Pipeline.process on the same tenant,
\* document and content, the document has the points of one run.
C39_ReingestionAddsNoPoints ==
    (/\ Len(pipeRuns) = 2
     /\ pipeRuns[1].status = "COMPLETED" /\ pipeRuns[2].status = "COMPLETED"
     /\ pipeRuns[1].tenant_id = pipeRuns[2].tenant_id
     /\ pipeRuns[1].document_id = pipeRuns[2].document_id
     /\ pipeRuns[1].content = pipeRuns[2].content) =>
        Cardinality(StoredPointsOf(pipeRuns[1].tenant_id, pipeRuns[1].document_id))
            = pipeRuns[1].vectors_stored

-----------------------------------------------------------------------------
(* Claims on the tenants of a conversation *)

\* C40: every entry of the conversation context a query gets is a question
\* its own tenant asked in that conversation.
C40_ContextOfOwnTenantOnly ==
    \A j \in 1..Len(turns) :
        \A n \in 1..Len(turns[j].conversation_context) :
            \E i \in 1..j :
                /\ turns[i].tenant_id = turns[j].tenant_id
                /\ turns[i].conversation_id = turns[j].conversation_id
                /\ turns[i].normalized_query = turns[j].conversation_context[n]

====
